---- MODULE Spec2Model ----
(***************************************************************************)
(* Model of the STDF measurement pipeline of STDF-Parser-CXX_PY:           *)
(*   - measurement extraction (cross product of PRR x test records),       *)
(*   - segment assignment and the partitioned push to the sink,            *)
(*   - identity resolution against the persistent identity store,          *)
(*   - the two-phase directory processor.                                  *)
(* Python strings are modelled as sequences of one-character strings, so   *)
(* that substring tests, the Pixel=R<d>C<d> regular expression, split and  *)
(* strip are computed character by character.  Floats are modelled as      *)
(* integers counting hundredths (3.14 is 314).                             *)
(***************************************************************************)
EXTENDS Integers, Sequences, FiniteSets, TLC

VARIABLES
    \* ---- measurement extraction of one file
    variant,        \* which extractor runs: "plain" or "connect"
    records,        \* the parsed records of the file, in file order
    pc,             \* position of the extraction
    prr_records,    \* record_types['PRR']
    test_records,   \* MPR + PTR + FTR records, in that order
    test_cache,     \* connect: the pre-processed pixel tests
    prrIdx,         \* index of the device being processed
    testIdx,        \* index of the test (or cache entry) being processed
    measurements,   \* self.measurements
    debug_tests,    \* debug_comma_tests + debug_single_tests
    devices,        \* self.devices: device_dmc -> local id
    parameters      \* self.parameters: cleaned name -> local id

exVars == <<variant, records, pc, prr_records, test_records, test_cache,
            prrIdx, testIdx, measurements, debug_tests, devices,
            parameters>>

VARIABLES
    \* ---- the identity store and the sink (ClickHouse tables)
    device_mapping,     \* table device_mapping: rows <<wld_id, wld_device_dmc>>
    parameter_info,     \* table parameter_info: rows <<wtp_id, wtp_param_name>>
    measurements_table  \* table measurements: the rows written, in write order

dbVars == <<device_mapping, parameter_info, measurements_table>>

VARIABLES
    \* ---- the push of one file's measurement list (fallback path)
    pushPc,             \* position of push_to_clickhouse
    data_store,         \* data_store['measurements']
    has_created_date,   \* the rows carry the key WPTM_CREATED_DATE
    fixIdx,             \* index of the row the segment loop is at
    fixed_tracker,      \* duplicate_tracker of the processor's segment loop
    processor,          \* device_id_map, param_id_map and the two counters
    duplicate_tracker,  \* duplicate_tracker shared by the partition workers
    partitions          \* per wld_id: rows, position, open batch, state

pushVars == <<pushPc, data_store, has_created_date, fixIdx, fixed_tracker,
              processor, duplicate_tracker, partitions>>

VARIABLES
    \* ---- file runs against the shared identity store
    job,            \* per run: the code path and the device names of the file
    wpc,            \* per run: position
    wproc,          \* per run: the maps and the counter of its STDFProcessor
    overlapped,     \* history: a run started while another was under way
    resolution      \* history: per run, the store its lookup saw and the result

runVars == <<job, wpc, wproc, overlapped, resolution>>

VARIABLES
    \* ---- two-phase processing of a directory (process_directory)
    stdf_files,             \* per file of the batch: device and parameter names
    ppc,                    \* position of process_directory
    scanIdx,                \* index of the file the discovery loop is at
    cached_results,         \* self.cached_results: per file the Phase 1 result
    all_devices,            \* device names discovered
    all_parameters,         \* parameter names discovered
    global_mappings,        \* self.global_device_mappings / global_param_mappings
    new_mappings,           \* new_devices / new_params of the discovery
    discovery_success,      \* "pending", then "ok" or "failed"
    fpc,                    \* per file: position of its Phase 2 worker
    fproc,                  \* per file: new mappings its Phase 2 processor holds
    committed               \* history: the identity store when Phase 2 began

phaseVars == <<stdf_files, ppc, scanIdx, cached_results, all_devices, all_parameters,
               global_mappings, new_mappings, discovery_success, fpc, fproc,
               committed>>

VARIABLES
    \* ---- one call of a helper function of the extractors
    called,         \* the function that was called, "none" before the call
    call_args,      \* its arguments
    call_result     \* what it returned

callVars == <<called, call_args, call_result>>

VARIABLES
    \* ---- a batch of files processed once and then once more
    mode,           \* "single": the file loop of main; "directory": two phases
    files,          \* the contents of the files of the batch
    pass,           \* history: 1 for the first processing, 2 for the re-run
    bpc,            \* position of the batch
    fileIdx,        \* index of the file the loop is at
    cache,          \* self.cached_results: per file the tuples of Phase 1
    cur,            \* current_file_hash and measurement_tuples of the processor
    results         \* the outcomes recorded in this pass

batchVars == <<mode, files, pass, bpc, fileIdx, cache, cur, results>>

VARIABLES
    \* ---- one ClickHouseConnectionPool used by several threads; connections
    \*      are interchangeable, so the model counts them
    pool,               \* self.pool.qsize(): the idle connections in the queue
    active_connections, \* self.active_connections
    open,               \* history: connections created and not disconnected
    held,               \* per thread: how many connections it has checked out
    fill_left,          \* iterations _fill_pool still has to run, -1 when idle
    tpc,                \* per thread: its position in the call it is in
    got                 \* per thread: how its last get_connection ended

poolVars == <<pool, active_connections, open, held, fill_left, tpc, got>>

VARIABLES
    \* ---- get_device_id of the single-file version and of the parallel
    \*      version, called with the same names on stores that start equal
    single_store,   \* device_mapping as the single-file version leaves it
    shared_store,   \* device_mapping as the parallel version leaves it
    single,         \* device_id_map and device_counter of the single-file STDFProcessor
    manager,        \* device_id_map and device_counter of the SharedIDManager
    device_lock,    \* the thread inside "with self.device_lock", or "free"
    pending,        \* per thread: the call it has made and not finished
    returned,       \* history: the (id, name) pairs the manager has returned
    ret,            \* the ids the two versions returned for the last call
    preload,        \* "no", or how load_existing_mappings ended
    calls           \* history: the number of calls made

idVars == <<single_store, shared_store, single, manager, device_lock, pending,
            returned, ret, preload, calls>>

VARIABLES
    \* ---- one STDFCppParser and its calls of parse_stdf_file
    stats,          \* self.stats: the four statistics counters
    extension,      \* whether the module stdf_parser_cpp was imported
    parse_log,      \* history: the stats before the last call and how it ended
    parses          \* history: the number of calls made

parserVars == <<stats, extension, parse_log, parses>>

\* one call of _execute_batch_with_retry or _execute_landing_batch_with_retry
VARIABLES
    retry_fn,       \* the function called: "batch", "landing" or "none"
    max_retries,    \* the max_retries argument of the call
    retry_count,    \* the local retry_count
    attempts,       \* history: how each pass of the loop ended
    retry_ret,      \* how the call ended and, when it raised, the error raised
    rpc             \* position of the call: idle, loop, done

retryVars == <<retry_fn, max_retries, retry_count, attempts, retry_ret, rpc>>

\* the rows of one repeated key passing through the segment assignment
VARIABLES
    seg_tracker,    \* the duplicate_tracker dictionary
    seg_last,       \* the segment of the row emitted last, -1 before the first
    seg_route       \* the code that assigns: "batch" or "processor"

segVars == <<seg_tracker, seg_last, seg_route>>

vars == <<exVars, dbVars, pushVars, runVars, phaseVars, callVars, batchVars,
         poolVars, idVars, parserVars, retryVars, segVars>>

-----------------------------------------------------------------------------
(* Bounds of the model *)

MaxRecords == 3

MaxPushDevices == 2

MaxPushTests == 2

BatchSize == 2

MaxNames == 2

-----------------------------------------------------------------------------
(* Python strings as character sequences *)

Digits == {"0", "1", "2", "3", "4", "5", "6", "7", "8", "9"}

DigitVal(c) ==
    CASE c = "0" -> 0 [] c = "1" -> 1 [] c = "2" -> 2 [] c = "3" -> 3
      [] c = "4" -> 4 [] c = "5" -> 5 [] c = "6" -> 6 [] c = "7" -> 7
      [] c = "8" -> 8 [] c = "9" -> 9

Max(S) == CHOOSE m \in S : \A x \in S : x <= m

Min(S) == CHOOSE m \in S : \A x \in S : m <= x

\* pat occurs in s starting at position i
IsPrefixAt(pat, s, i) ==
    /\ i >= 1
    /\ i + Len(pat) - 1 <= Len(s)
    /\ \A k \in 1..Len(pat) : s[i + k - 1] = pat[k]

\* Python: pat in s
Contains(s, pat) == \E i \in 1..(Len(s) + 1) : IsPrefixAt(pat, s, i)

\* last position of the maximal run of digits of s that starts at j (j-1: none)
RunEnd(s, j) ==
    IF j > Len(s) \/ s[j] \notin Digits
    THEN j - 1
    ELSE Max({e \in j..Len(s) : \A k \in j..e : s[k] \in Digits})

\* int() of the digits s[a..e]
RECURSIVE ToInt(_, _, _)
ToInt(s, a, e) ==
    IF e < a THEN 0 ELSE 10 * ToInt(s, a, e - 1) + DigitVal(s[e])

SubStr(s, a, e) == IF e < a THEN <<>> ELSE SubSeq(s, a, e)

\* str.strip(): leading and trailing blanks removed
RECURSIVE Strip(_)
Strip(s) ==
    IF s = <<>> THEN s
    ELSE IF Head(s) = " " THEN Strip(Tail(s))
    ELSE IF s[Len(s)] = " " THEN Strip(SubSeq(s, 1, Len(s) - 1))
    ELSE s

\* str.split(','): the list of the fields between the commas
RECURSIVE SplitComma(_)
SplitComma(s) ==
    IF \A i \in 1..Len(s) : s[i] # ","
    THEN <<s>>
    ELSE LET c == Min({i \in 1..Len(s) : s[i] = ","})
         IN  <<SubStr(s, 1, c - 1)>> \o SplitComma(SubStr(s, c + 1, Len(s)))

\* The literals of the marker
PixelEq == <<"P", "i", "x", "e", "l", "=">>

pixelEqLower == <<"p", "i", "x", "e", "l", "=">>

PixelR == PixelEq \o <<"R">>

\* re: Pixel=R(\d+)C(\d+) matches s at position i, with the groups' places
MarkerAt(s, i) ==
    LET a  == i + Len(PixelR)
        e1 == RunEnd(s, a)
        c  == e1 + 1
        e2 == RunEnd(s, c + 1)
    IN  [ok  |-> /\ IsPrefixAt(PixelR, s, i)
                 /\ e1 >= a
                 /\ c <= Len(s)
                 /\ s[c] = "C"
                 /\ e2 >= c + 1,
         a |-> a, e1 |-> e1, c |-> c, e2 |-> e2]

MarkerStarts(s) == {i \in 1..Len(s) : MarkerAt(s, i).ok}

\* the text holds a full marker Pixel=R<digits>C<digits>
HasMarker(s) == MarkerStarts(s) # {}

-----------------------------------------------------------------------------
(* Text helpers of the extractors *)

\* _parse_pixel_coords: the leftmost marker of the text, as (X, Y) = (col, row)
ParsePixelCoords(text) ==
    IF text = <<>> \/ ~Contains(text, PixelEq) \/ MarkerStarts(text) = {}
    THEN [found |-> FALSE, x |-> 0, y |-> 0]
    ELSE LET m == MarkerAt(text, Min(MarkerStarts(text)))
         IN  [found |-> TRUE,
              x |-> ToInt(text, m.c + 1, m.e2),
              y |-> ToInt(text, m.a, m.e1)]

\* _extract_test_coordinates: alarm_id first, then test_txt, then the defaults
ExtractTestCoordinates(alarm_id, test_txt, default_x, default_y) ==
    LET p1 == ParsePixelCoords(alarm_id)
        p2 == IF ~p1.found /\ test_txt # <<>>
              THEN ParsePixelCoords(test_txt) ELSE p1
    IN  [x |-> IF p2.found THEN p2.x ELSE default_x,
         y |-> IF p2.found THEN p2.y ELSE default_y]

\* re.sub(r';Pixel=R\d+C\d+', '', s): every match removed, left to right
RECURSIVE RemoveSemiMarkers(_)
RemoveSemiMarkers(s) ==
    LET starts == {i \in 1..Len(s) : s[i] = ";" /\ MarkerAt(s, i + 1).ok}
    IN  IF starts = {} THEN s
        ELSE LET i == Min(starts)
                 m == MarkerAt(s, i + 1)
             IN  SubStr(s, 1, i - 1) \o RemoveSemiMarkers(SubStr(s, m.e2 + 1, Len(s)))

\* re.sub(r'^Pixel=R\d+C\d+;', '', s)
RemoveLeadingMarker(s) ==
    LET m == MarkerAt(s, 1)
    IN  IF m.ok /\ m.e2 + 1 <= Len(s) /\ s[m.e2 + 1] = ";"
        THEN SubStr(s, m.e2 + 2, Len(s))
        ELSE s

\* _clean_param_name of the plain and the connect extractor
CleanParamName(param_name) ==
    IF param_name = <<>> THEN param_name
    ELSE RemoveLeadingMarker(RemoveSemiMarkers(param_name))

\* the non-empty stripped fields of a comma-separated text
RECURSIVE StripNonEmpty(_)
StripNonEmpty(fields) ==
    IF fields = <<>> THEN <<>>
    ELSE LET t == Strip(Head(fields))
         IN  (IF t = <<>> THEN <<>> ELSE <<t>>) \o StripNonEmpty(Tail(fields))

ZeroText == <<"0", ".", "0">>

\* a faulty parse that does not split at the commas
ParseTestValuesUnsplit(test_txt) ==
    IF test_txt = <<>> THEN <<ZeroText>> ELSE <<test_txt>>

\* _parse_test_values
ParseTestValues(test_txt) ==
    IF test_txt = <<>> THEN <<ZeroText>>
    ELSE IF Contains(test_txt, <<",">>)
    THEN LET values == StripNonEmpty(SplitComma(test_txt))
         IN  IF values = <<>> THEN <<ZeroText>> ELSE values
    ELSE <<test_txt>>

\* float(text): [-]digits[.digits] after stripping, in hundredths; ok = FALSE
\* stands for ValueError
ParseFloat(text) ==
    LET t    == Strip(text)
        neg  == t # <<>> /\ t[1] = "-"
        b    == IF neg THEN 2 ELSE 1
        ie   == RunEnd(t, b)
        dot  == ie + 1 <= Len(t) /\ t[ie + 1] = "."
        fb   == ie + 2
        fe   == IF dot THEN RunEnd(t, fb) ELSE ie
        last == IF dot THEN Max({fe, ie + 1}) ELSE ie
        nint == ie - b + 1
        nfr  == IF dot THEN fe - fb + 1 ELSE 0
        f1   == IF nfr >= 1 THEN DigitVal(t[fb]) ELSE 0
        f2   == IF nfr >= 2 THEN DigitVal(t[fb + 1]) ELSE 0
        mag  == 100 * ToInt(t, b, ie) + 10 * f1 + f2
    IN  [ok  |-> last = Len(t) /\ nint + nfr >= 1,
         val |-> IF neg THEN 0 - mag ELSE mag]

\* _safe_float
SafeFloat(value) ==
    IF value = <<>> THEN 0
    ELSE IF ParseFloat(value).ok THEN ParseFloat(value).val ELSE 0

MapSafeFloat(tokens) == [i \in 1..Len(tokens) |-> SafeFloat(tokens[i])]

-----------------------------------------------------------------------------
(* The records of a file.  A record carries the fields the extractors read: *)
(* PART_ID, SOFT_BIN, X_COORD, Y_COORD of a PRR; ALARM_ID, TEST_TXT,        *)
(* RTN_RSLT, RESULT, TEST_FLG of a test record.  The top-level test_txt of  *)
(* a record and its TEST_TXT field hold the same text.                      *)

Rec(kind, part_id, bin, x, y, alarm_id, test_txt, rtn_rslt, result, test_flg) ==
    [kind |-> kind, part_id |-> part_id, bin |-> bin, x_coord |-> x,
     y_coord |-> y, alarm_id |-> alarm_id, test_txt |-> test_txt,
     rtn_rslt |-> rtn_rslt, result |-> result, test_flg |-> test_flg]

PrrRec(part_id, bin, x, y) ==
    Rec("PRR", part_id, bin, x, y, <<>>, <<>>, <<>>, <<>>, 0)

TestRec(kind, alarm_id, test_txt, rtn_rslt, result, test_flg) ==
    Rec(kind, "", "", 0, 0, alarm_id, test_txt, rtn_rslt, result, test_flg)

MarkerR1C2 == PixelR \o <<"1", "C", "2">>

MarkerR12C34 == PixelR \o <<"1", "2", "C", "3", "4">>

MarkerR0C0 == PixelR \o <<"0", "C", "0">>

Txt314 == <<"3", ".", "1", "4">>

TxtList123 == <<"1", ".", "0", ",", "2", ".", "0", ",", "3", ".", "0">>

FloatArrayText ==
    <<"[", "f", "l", "o", "a", "t", "_", "a", "r", "r", "a", "y", "]">>

\* the records a modelled file is built from
PrrRecords ==
    { PrrRec("DEV1", "1", 5, 7), PrrRec("DEV2", "2", 0, 0) }

TestRecordSet ==
    { \* "TEMP;Pixel=R1C2", empty test_txt, RESULT 3.14
      TestRec("PTR", <<"T", "E", "M", "P", ";">> \o MarkerR1C2, <<>>, <<>>, Txt314, 0),
      \* the marker only in test_txt
      TestRec("PTR", <<>>, <<"F", "O", "O", ";">> \o MarkerR12C34, <<>>, Txt314, 1),
      \* no marker at all
      TestRec("PTR", <<"F", "O", "O">>, <<"1", ".", "5">>, <<>>, Txt314, 0),
      \* only a lowercase pixel=
      TestRec("PTR", <<>>, pixelEqLower \o <<"R", "1", "C", "2">>, <<>>, Txt314, 0),
      \* Pixel= without R<digits>C<digits>
      TestRec("PTR", PixelEq \o <<"X">>, <<>>, <<>>, Txt314, 0),
      \* MPR "VOLT;Pixel=R0C0" with RTN_RSLT "1.0,2.0,3.0"
      TestRec("MPR", <<"V", "O", "L", "T", ";">> \o MarkerR0C0, <<>>, TxtList123, <<>>, 0),
      \* MPR with the marker in test_txt and RTN_RSLT "1.0,2.0,3.0"
      TestRec("MPR", <<>>, <<"V", "O", "L", "T", ";">> \o MarkerR0C0, TxtList123, <<>>, 0),
      \* comma-separated test_txt with a token that is no float
      TestRec("FTR", MarkerR1C2 \o <<";", "A">>, <<"1", ".", "5", ",", " ", "x">>, <<>>, Txt314, 1) }

RecordSet == PrrRecords \cup TestRecordSet

Files == UNION { [1..n -> RecordSet] : n \in 0..MaxRecords }

\* the grouping loop had it skipped a record equal to one already in its list
RECURSIVE GroupByTypeOnce(_, _)
GroupByTypeOnce(recs, record_types) ==
    IF recs = <<>> THEN record_types
    ELSE LET record == Head(recs)
             rtype  == record.kind
             opened == IF rtype \in DOMAIN record_types
                       THEN record_types
                       ELSE record_types @@ (rtype :> <<>>)
         IN  IF \E i \in 1..Len(opened[rtype]) : opened[rtype][i] = record
             THEN GroupByTypeOnce(Tail(recs), opened)
             ELSE GroupByTypeOnce(Tail(recs),
                      [opened EXCEPT ![rtype] = Append(@, record)])

\* the grouping loop of extract_measurements (lines 56-61), which appends
\* every record to the list of its record_type without looking at the list
RECURSIVE GroupByType(_, _)
GroupByType(recs, record_types) ==
    IF recs = <<>> THEN record_types
    ELSE LET record == Head(recs)
             rtype  == record.kind
             opened == IF rtype \in DOMAIN record_types
                       THEN record_types
                       ELSE record_types @@ (rtype :> <<>>)
         IN  GroupByType(Tail(recs),
                 [opened EXCEPT ![rtype] = Append(@, record)])

\* record_types.get(kind, []): the records of a kind
RecordsOfKind(recs, kind) ==
    LET record_types == GroupByType(recs, <<>>)
    IN  IF kind \in DOMAIN record_types THEN record_types[kind] ELSE <<>>

\* the test records in the order the cross product visits them
TestRecordsOf(recs) ==
    RecordsOfKind(recs, "MPR") \o RecordsOfKind(recs, "PTR")
        \o RecordsOfKind(recs, "FTR") \o RecordsOfKind(recs, "SBR")
        \o RecordsOfKind(recs, "HBR")

\* _is_pixel_test of extract_all_measurements.py and of the connect version
IsPixelTest(alarm_id, test_txt) ==
    \/ alarm_id # <<>> /\ Contains(alarm_id, PixelEq)
    \/ test_txt # <<>> /\ Contains(test_txt, PixelEq)

\* _is_pixel_test of the parallel version
IsPixelTestParallel(param_name, test_txt) ==
    \/ Contains(param_name, PixelEq) \/ Contains(test_txt, PixelEq)
    \/ Contains(param_name, pixelEqLower) \/ Contains(test_txt, pixelEqLower)

\* dict lookup-or-insert of self.devices / self.parameters: a new key gets
\* len(dict) as its id
WithKey(dict, key) ==
    IF key \in DOMAIN dict THEN dict
    ELSE dict @@ (key :> Cardinality(DOMAIN dict))

\* the measurement values of a test record, plain extractor (lines 223-239)
PlainValues(test) ==
    IF test.kind = "MPR" /\ test.rtn_rslt # <<>> /\ test.rtn_rslt # FloatArrayText
    THEN IF Contains(test.rtn_rslt, <<",">>)
         THEN MapSafeFloat(ParseTestValues(test.rtn_rslt))
         ELSE <<SafeFloat(test.rtn_rslt)>>
    ELSE LET tv == ParseTestValues(test.test_txt)
         IN  [i \in 1..Len(tv) |->
                IF tv[i] # <<>> THEN SafeFloat(tv[i]) ELSE SafeFloat(test.result)]

\* the values of a test record, connect extractor (lines 424-438): RTN_RSLT
\* if the record has the field (MPR), else RESULT; one bad token gives [0.0]
ConnectValues(test) ==
    LET result_string == IF test.kind = "MPR" THEN test.rtn_rslt ELSE test.result
        tokens == StripNonEmpty(SplitComma(result_string))
    IN  IF result_string = <<>> THEN <<0>>
        ELSE IF \E i \in 1..Len(tokens) : ~ParseFloat(tokens[i]).ok THEN <<0>>
        ELSE IF tokens = <<>> THEN <<0>>
        ELSE [i \in 1..Len(tokens) |-> ParseFloat(tokens[i]).val]

-----------------------------------------------------------------------------
(* Measurement extraction: the cross product of the PRR records with the    *)
(* test records.  The field src of a row is a history field: the indexes    *)
(* of the PRR, of the test record in test_records and of the value the row  *)
(* was built from.                                                          *)

\* a faulty expansion that keeps only the first value of a test record
PlainRowsFirstValue(test, prr, d, t) ==
    LET c == ExtractTestCoordinates(test.alarm_id, test.test_txt,
                                    prr.x_coord, prr.y_coord)
    IN  <<[WTP_PARAM_NAME |-> CleanParamName(test.alarm_id),
           WPTM_VALUE |-> PlainValues(test)[1],
           WP_POS_X |-> c.x, WP_POS_Y |-> c.y, TEST_FLG |-> test.test_flg,
           RECORD_TYPE |-> test.kind, src |-> <<d, t, 1>>]>>

\* the rows _process_single_test appends for a pixel test (lines 208-268)
PlainRows(test, prr, d, t) ==
    LET param_name == test.alarm_id
        c       == ExtractTestCoordinates(param_name, test.test_txt,
                                          prr.x_coord, prr.y_coord)
        cleaned == CleanParamName(param_name)
        vals    == PlainValues(test)
    IN  [k \in 1..Len(vals) |->
            [WTP_PARAM_NAME |-> cleaned, WPTM_VALUE |-> vals[k],
             WP_POS_X |-> c.x, WP_POS_Y |-> c.y, TEST_FLG |-> test.test_flg,
             RECORD_TYPE |-> test.kind, src |-> <<d, t, k>>]]

\* the entry the connect extractor caches for a pixel test (lines 417-447)
CacheEntry(test, params, t) ==
    LET cleaned == CleanParamName(test.test_txt)
    IN  [values |-> ConnectValues(test), cleaned_param_name |-> cleaned,
         param_id |-> WithKey(params, cleaned)[cleaned],
         test_txt |-> test.test_txt, test_flg |-> test.test_flg, src |-> t]

\* the rows the connect extractor appends for a cached test (lines 469-510)
ConnectRows(entry, prr, device_id, d) ==
    LET c == ExtractTestCoordinates(entry.cleaned_param_name, entry.test_txt,
                                    prr.x_coord, prr.y_coord)
    IN  [k \in 1..Len(entry.values) |->
            [WLD_ID |-> device_id, WTP_ID |-> entry.param_id,
             WTP_PARAM_NAME |-> entry.cleaned_param_name,
             WP_POS_X |-> c.x, WP_POS_Y |-> c.y,
             WPTM_VALUE |-> entry.values[k],
             TEST_FLAG |-> IF prr.bin = "1" THEN 1 ELSE 0,
             TEST_FLG |-> entry.test_flg, SEGMENT |-> 0,
             WLD_DEVICE_DMC |-> prr.part_id, WLD_BIN_CODE |-> prr.bin,
             src |-> <<d, entry.src, k>>]]

\* no extraction is running
ExIdle ==
    /\ variant = "none"
    /\ records = <<>>
    /\ pc = "idle"
    /\ prr_records = <<>>
    /\ test_records = <<>>
    /\ test_cache = <<>>
    /\ prrIdx = 1
    /\ testIdx = 1
    /\ measurements = <<>>
    /\ debug_tests = 0
    /\ devices = <<>>
    /\ parameters = <<>>

\* the tables are empty
DbIdle ==
    /\ device_mapping = {}
    /\ parameter_info = {}
    /\ measurements_table = <<>>

\* no push is running
PushIdle ==
    /\ pushPc = "idle"
    /\ data_store = <<>>
    /\ has_created_date = FALSE
    /\ fixIdx = 1
    /\ fixed_tracker = <<>>
    /\ processor = <<>>
    /\ duplicate_tracker = <<>>
    /\ partitions = <<>>

\* no file run is under way
RunIdle ==
    /\ job = <<>>
    /\ wpc = <<>>
    /\ wproc = <<>>
    /\ overlapped = FALSE
    /\ resolution = <<>>

\* no helper call is modelled
CallIdle ==
    /\ called = "idle"
    /\ call_args = <<>>
    /\ call_result = <<>>

\* no directory is being processed
PhaseIdle ==
    /\ stdf_files = <<>>
    /\ ppc = "idle"
    /\ scanIdx = 1
    /\ cached_results = <<>>
    /\ all_devices = {}
    /\ all_parameters = {}
    /\ global_mappings = <<>>
    /\ new_mappings = <<>>
    /\ discovery_success = "pending"
    /\ fpc = <<>>
    /\ fproc = <<>>
    /\ committed = <<>>

\* no batch is being processed
BatchIdle ==
    /\ mode = "idle"
    /\ files = <<>>
    /\ pass = 1
    /\ bpc = "idle"
    /\ fileIdx = 1
    /\ cache = <<>>
    /\ cur = <<>>
    /\ results = <<>>

\* no connection pool is in use
PoolIdle ==
    /\ pool = 0
    /\ active_connections = 0
    /\ open = 0
    /\ held = <<>>
    /\ fill_left = -1
    /\ tpc = <<>>
    /\ got = <<>>

\* no identity call is modelled
IdIdle ==
    /\ single_store = {}
    /\ shared_store = {}
    /\ single = <<>>
    /\ manager = <<>>
    /\ device_lock = "free"
    /\ pending = <<>>
    /\ returned = {}
    /\ ret = <<>>
    /\ preload = "no"
    /\ calls = 0

\* no STDFCppParser is in use
ParserIdle ==
    /\ stats = <<>>
    /\ extension = FALSE
    /\ parse_log = <<>>
    /\ parses = 0

NoReturn == [how |-> "none", error |-> 0]

RetryIdle ==
    /\ retry_fn = "none"
    /\ max_retries = 0
    /\ retry_count = 0
    /\ attempts = <<>>
    /\ retry_ret = NoReturn
    /\ rpc = "idle"

SegIdle ==
    /\ seg_tracker = <<>>
    /\ seg_last = -1
    /\ seg_route = "none"

ExInit ==
    /\ variant \in {"plain", "connect"}
    /\ records \in Files
    /\ pc = "start"
    /\ prr_records = <<>>
    /\ test_records = <<>>
    /\ test_cache = <<>>
    /\ prrIdx = 1
    /\ testIdx = 1
    /\ measurements = <<>>
    /\ debug_tests = 0
    /\ devices = <<>>
    /\ parameters = <<>>

\* the head of _extract_from_records: PRR records, early return, test records
GroupRecords ==
    /\ pc = "start"
    /\ prr_records' = RecordsOfKind(records, "PRR")
    /\ IF prr_records' = <<>>
       THEN /\ pc' = "done"
            /\ UNCHANGED <<test_records, measurements>>
       ELSE /\ test_records' = TestRecordsOf(records)
            /\ pc' = IF variant = "connect" THEN "cache" ELSE "device"
            /\ measurements' = IF variant = "connect" THEN <<>> ELSE measurements
    /\ UNCHANGED <<variant, records, test_cache, prrIdx, testIdx, debug_tests,
                   devices, parameters>>
    /\ UNCHANGED <<dbVars, pushVars, runVars, phaseVars, callVars, batchVars,
                   poolVars, idVars, parserVars, retryVars, segVars>>

\* connect: one iteration of the loop that fills test_cache
CacheTest ==
    /\ pc = "cache"
    /\ testIdx <= Len(test_records)
    /\ LET test == test_records[testIdx]
       IN  IF ~IsPixelTest(test.test_txt, test.test_txt)
           THEN UNCHANGED <<test_cache, parameters, debug_tests>>
           ELSE /\ parameters' = WithKey(parameters, CleanParamName(test.test_txt))
                /\ test_cache' = Append(test_cache,
                                        CacheEntry(test, parameters, testIdx))
                /\ debug_tests' = debug_tests + 1
    /\ testIdx' = testIdx + 1
    /\ UNCHANGED <<variant, records, pc, prr_records, test_records, prrIdx,
                   measurements, devices>>
    /\ UNCHANGED <<dbVars, pushVars, runVars, phaseVars, callVars, batchVars,
                   poolVars, idVars, parserVars, retryVars, segVars>>

\* connect: the cache loop is over
CacheDone ==
    /\ pc = "cache"
    /\ testIdx > Len(test_records)
    /\ pc' = "device"
    /\ testIdx' = 1
    /\ UNCHANGED <<variant, records, prr_records, test_records, test_cache,
                   prrIdx, measurements, debug_tests, devices, parameters>>
    /\ UNCHANGED <<dbVars, pushVars, runVars, phaseVars, callVars, batchVars,
                   poolVars, idVars, parserVars, retryVars, segVars>>

\* the head of one iteration of the device loop: the device gets its local id
BeginDevice ==
    /\ pc = "device"
    /\ prrIdx <= Len(prr_records)
    /\ devices' = WithKey(devices, prr_records[prrIdx].part_id)
    /\ pc' = "tests"
    /\ testIdx' = 1
    /\ UNCHANGED <<variant, records, prr_records, test_records, test_cache,
                   prrIdx, measurements, debug_tests, parameters>>
    /\ UNCHANGED <<dbVars, pushVars, runVars, phaseVars, callVars, batchVars,
                   poolVars, idVars, parserVars, retryVars, segVars>>

\* plain: _process_single_test for the current device and test
ProcessSingleTest ==
    /\ pc = "tests"
    /\ variant = "plain"
    /\ testIdx <= Len(test_records)
    /\ LET test == test_records[testIdx]
       IN  IF ~IsPixelTest(test.alarm_id, test.test_txt)
           THEN UNCHANGED <<measurements, parameters, debug_tests>>
           ELSE /\ parameters' = WithKey(parameters, CleanParamName(test.alarm_id))
                /\ measurements' = measurements \o
                       PlainRows(test, prr_records[prrIdx], prrIdx, testIdx)
                /\ debug_tests' = debug_tests + 1
    /\ testIdx' = testIdx + 1
    /\ UNCHANGED <<variant, records, pc, prr_records, test_records, test_cache,
                   prrIdx, devices>>
    /\ UNCHANGED <<dbVars, pushVars, runVars, phaseVars, callVars, batchVars,
                   poolVars, idVars, parserVars, retryVars, segVars>>

\* connect: the rows of the current device for one cached test
EmitCached ==
    /\ pc = "tests"
    /\ variant = "connect"
    /\ testIdx <= Len(test_cache)
    /\ measurements' = measurements \o
           ConnectRows(test_cache[testIdx], prr_records[prrIdx],
                       devices[prr_records[prrIdx].part_id], prrIdx)
    /\ testIdx' = testIdx + 1
    /\ UNCHANGED <<variant, records, pc, prr_records, test_records, test_cache,
                   prrIdx, debug_tests, devices, parameters>>
    /\ UNCHANGED <<dbVars, pushVars, runVars, phaseVars, callVars, batchVars,
                   poolVars, idVars, parserVars, retryVars, segVars>>

\* the tests of the current device are done: next device
EndDevice ==
    /\ pc = "tests"
    /\ testIdx > (IF variant = "plain" THEN Len(test_records) ELSE Len(test_cache))
    /\ prrIdx' = prrIdx + 1
    /\ pc' = "device"
    /\ UNCHANGED <<variant, records, prr_records, test_records, test_cache,
                   testIdx, measurements, debug_tests, devices, parameters>>
    /\ UNCHANGED <<dbVars, pushVars, runVars, phaseVars, callVars, batchVars,
                   poolVars, idVars, parserVars, retryVars, segVars>>

\* the device loop is over; the plain extractor prints the comma ratio without
\* guarding the division (line 160), which raises when no pixel test was seen
ExtractDone ==
    /\ pc = "device"
    /\ prrIdx > Len(prr_records)
    /\ pc' = IF variant = "plain" /\ debug_tests = 0 THEN "raised" ELSE "done"
    /\ UNCHANGED <<variant, records, prr_records, test_records, test_cache,
                   prrIdx, testIdx, measurements, debug_tests, devices,
                   parameters>>
    /\ UNCHANGED <<dbVars, pushVars, runVars, phaseVars, callVars, batchVars,
                   poolVars, idVars, parserVars, retryVars, segVars>>

ExNext ==
    \/ GroupRecords
    \/ CacheTest
    \/ CacheDone
    \/ BeginDevice
    \/ ProcessSingleTest
    \/ EmitCached
    \/ EndDevice
    \/ ExtractDone

ExtractInit == ExInit /\ DbIdle /\ PushIdle /\ RunIdle /\ PhaseIdle /\ CallIdle /\ BatchIdle /\ PoolIdle /\ IdIdle /\ ParserIdle /\ RetryIdle /\ SegIdle

SpecExtract == ExtractInit /\ [][ExNext]_vars

ExtractionOver == pc \in {"done", "raised"}

-----------------------------------------------------------------------------
(* Properties of the extraction *)

RECURSIVE SumSeq(_)
SumSeq(s) == IF s = <<>> THEN 0 ELSE Head(s) + SumSeq(Tail(s))

\* D: the number of PRR records of the file
DeviceCount == Cardinality({i \in 1..Len(records) : records[i].kind = "PRR"})

\* the test record passes the filter of the running extractor
PassesFilter(test) ==
    IF variant = "plain" THEN IsPixelTest(test.alarm_id, test.test_txt)
    ELSE IsPixelTest(test.test_txt, test.test_txt)

\* v_i: the number of values the test record expands to
ValueCount(test) ==
    IF variant = "plain" THEN Len(PlainValues(test)) ELSE Len(ConnectValues(test))

\* D x (sum of v_i over the filtered test records of the file)
ExpectedRows ==
    DeviceCount * SumSeq([i \in 1..Len(records) |->
        IF records[i].kind # "PRR" /\ PassesFilter(records[i])
        THEN ValueCount(records[i]) ELSE 0])

RowIdx == 1..Len(measurements)

\* C1: when the extraction of a file is over, the number of rows is
\* D x (sum of v_i); every row comes from a (device, filtered test record,
\* value) triple, no two rows from the same triple, so each triple has exactly
\* one row; no row comes from a test record that fails the filter, and there
\* is no row when the file has no PRR record.
C1_CrossProduct ==
    ExtractionOver =>
        /\ Len(measurements) = ExpectedRows
        /\ \A i, j \in RowIdx :
              measurements[i].src = measurements[j].src => i = j
        /\ \A i \in RowIdx :
              LET src == measurements[i].src
              IN  /\ src[1] \in 1..DeviceCount
                  /\ src[2] \in 1..Len(test_records)
                  /\ PassesFilter(test_records[src[2]])
                  /\ src[3] \in 1..ValueCount(test_records[src[2]])
        /\ (DeviceCount = 0 => measurements = <<>>)

\* C1 witness: two devices and a test record of three values gave six rows
C1_Witness ==
    /\ ExtractionOver
    /\ DeviceCount = 2
    /\ \E t \in 1..Len(test_records) : ValueCount(test_records[t]) = 3
    /\ Len(measurements) = 6

\* the rows built from test record t
RowsFromTest(t) == {i \in RowIdx : measurements[i].src[2] = t}

\* C10: when the extraction of a file with a PRR record is over, a test
\* record has rows if and only if the marker Pixel=R<digits>C<digits> occurs
\* in its alarm_id or in its test_txt.
C10_IncludedIffMarker ==
    (ExtractionOver /\ prr_records # <<>>) =>
        \A t \in 1..Len(test_records) :
            (RowsFromTest(t) # {}) <=>
                (HasMarker(test_records[t].alarm_id)
                    \/ HasMarker(test_records[t].test_txt))

-----------------------------------------------------------------------------
(* Identity resolution against the store tables.  A table is a set of rows  *)
(* <<id, name>>; a dict name -> id is a function.                           *)

\* SELECT ... FROM table WHERE name IN (names)
SelectByName(table, names) == {r \in table : r[2] \in names}

NamesOf(rows) == {r[2] : r \in rows}

\* the dicts "for name, id in rows: mapping[name] = id" can end with: a name
\* with several rows keeps the id of the row that is read last
LoadedMappings(rows) ==
    {f \in [NamesOf(rows) -> {r[1] : r \in rows}] :
        \A n \in NamesOf(rows) : <<f[n], n>> \in rows}

\* the counter after "if id >= counter: counter = id + 1" over the rows
CounterAfter(counter, rows) == Max({counter} \cup {r[1] + 1 : r \in rows})

\* the ids the names get from the counter: counter, counter + 1, ..., in the
\* iteration order of the set of names
NewAssignments(names, counter) ==
    {f \in [names -> counter..(counter + Cardinality(names) - 1)] :
        \A a, b \in names : f[a] = f[b] => a = b}

\* dict.update(f)
Updated(dict, f) ==
    [k \in (DOMAIN dict) \cup (DOMAIN f) |-> IF k \in DOMAIN f THEN f[k] ELSE dict[k]]

\* the rows (id, name) of a dict name -> id
RowsOfMap(map) == {<<map[n], n>> : n \in DOMAIN map}

\* the names a batch resolves: '' and 'unknown' are skipped
BatchNames(names) == names \ {"", "unknown"}

-----------------------------------------------------------------------------
(* Segments and the partitioned push of one file's measurement list         *)

\* str(n) of an integer
RECURSIVE NatStr(_)
NatStr(n) ==
    IF n < 10 THEN <<CHOOSE c \in Digits : DigitVal(c) = n>>
    ELSE NatStr(n \div 10) \o NatStr(n % 10)

IntStr(n) == IF n < 0 THEN <<"-">> \o NatStr(0 - n) ELSE NatStr(n)

\* a faulty tracker that never increments
GetDuplicateSegmentStuck(duplicate_key, tracker) ==
    [segment |-> 0, tracker |-> tracker @@ (duplicate_key :> 0)]

\* _get_duplicate_segment: the segment of the key and the tracker afterwards
GetDuplicateSegment(duplicate_key, tracker) ==
    IF duplicate_key \in DOMAIN tracker
    THEN [segment |-> tracker[duplicate_key] + 1,
          tracker |-> [tracker EXCEPT ![duplicate_key] = @ + 1]]
    ELSE [segment |-> 0, tracker |-> tracker @@ (duplicate_key :> 0)]

\* the key of the processor's segment loop, on the raw STDF flag (lines 708-714)
FixedKey(m) ==
    <<m.WLD_ID, m.WTP_ID, IntStr(m.WP_POS_X), IntStr(m.WP_POS_Y), m.TEST_FLG>>

\* a faulty key on the raw STDF flag instead of TEST_FLAG
DuplicateKeyRawFlag(m) ==
    <<m.WLD_ID, m.WTP_ID, IntStr(m.WP_POS_X), IntStr(m.WP_POS_Y), m.TEST_FLG>>

\* duplicate_key of _process_measurement_batch
DuplicateKey(m) ==
    <<m.WLD_ID, m.WTP_ID, IntStr(m.WP_POS_X), IntStr(m.WP_POS_Y), m.TEST_FLAG>>

\* _convert_measurement_to_batch_data; idx is a history field, the position
\* of the measurement in the file's list
ConvertMeasurementToBatchData(m, segment) ==
    [wld_id |-> m.WLD_ID, wtp_id |-> m.WTP_ID,
     wp_pos_x |-> m.WP_POS_X, wp_pos_y |-> m.WP_POS_Y,
     test_flag |-> IF m.TEST_FLAG # 0 THEN 1 ELSE 0,
     segment |-> segment, idx |-> m.idx]

\* _organize_measurements_by_partition
OrganizeMeasurementsByPartition(ms) ==
    [w \in {ms[i].WLD_ID : i \in 1..Len(ms)} |->
        SelectSeq(ms, LAMBDA m : m.WLD_ID = w)]

\* the devices and pixel tests a pushed measurement list is expanded from
PushDevices == {[dmc |-> "DEV1", bin |-> "1"], [dmc |-> "DEV2", bin |-> "2"]}

PushTests ==
    {[name |-> "TEMP", x |-> 2, y |-> 1, test_flg |-> 0],
     [name |-> "TEMP", x |-> 2, y |-> 1, test_flg |-> 1],
     [name |-> "VOLT", x |-> 0, y |-> 0, test_flg |-> 0],
     [name |-> "", x |-> 2, y |-> 1, test_flg |-> 0]}

SeqsUpTo(S, n) == UNION {[1..k -> S] : k \in 1..n}

\* len(dict) when the key of position i was first inserted
LocalId(keys, i) ==
    LET first == Min({j \in 1..Len(keys) : keys[j] = keys[i]})
    IN  Cardinality({keys[j] : j \in 1..(first - 1)})

\* the measurement list of the devices x tests, device by device, with the
\* local ids of the extractor (lines 461-510)
MeasurementList(devs, tests) ==
    LET nt == Len(tests)
        dk == [d \in 1..Len(devs) |-> devs[d].dmc]
        tk == [t \in 1..nt |-> tests[t].name]
    IN  [i \in 1..(Len(devs) * nt) |->
            LET d == ((i - 1) \div nt) + 1
                t == ((i - 1) % nt) + 1
            IN  [WLD_ID |-> LocalId(dk, d), WTP_ID |-> LocalId(tk, t),
                 WLD_DEVICE_DMC |-> devs[d].dmc, WTP_PARAM_NAME |-> tests[t].name,
                 WP_POS_X |-> tests[t].x, WP_POS_Y |-> tests[t].y,
                 TEST_FLAG |-> IF devs[d].bin = "1" THEN 1 ELSE 0,
                 TEST_FLG |-> tests[t].test_flg, SEGMENT |-> 0,
                 segment |-> -1, idx |-> i]]

\* STDFProcessor.__init__: empty maps, counters 0
FreshProcessor ==
    [device_id_map |-> <<>>, param_id_map |-> <<>>,
     device_counter |-> 0, param_counter |-> 0]

\* contents of the identity store left by earlier runs
DeviceTables == { {}, {<<0, "DEV1">>}, {<<0, "DEV9">>, <<1, "DEV2">>} }

ParamTables == { {}, {<<0, "VOLT">>} }

PushInit ==
    /\ \E devs \in SeqsUpTo(PushDevices, MaxPushDevices),
          tests \in SeqsUpTo(PushTests, MaxPushTests) :
            data_store = MeasurementList(devs, tests)
    /\ has_created_date \in BOOLEAN
    /\ device_mapping \in DeviceTables
    /\ parameter_info \in ParamTables
    /\ measurements_table = <<>>
    /\ pushPc = "fix"
    /\ fixIdx = 1
    /\ fixed_tracker = <<>>
    /\ processor = FreshProcessor
    /\ duplicate_tracker = <<>>
    /\ partitions = <<>>

\* one iteration of the processor's segment loop (lines 697-722)
FixMeasurement ==
    /\ pushPc = "fix"
    /\ fixIdx <= Len(data_store)
    /\ LET r == GetDuplicateSegment(FixedKey(data_store[fixIdx]), fixed_tracker)
       IN  /\ fixed_tracker' = r.tracker
           /\ data_store' = [data_store EXCEPT ![fixIdx].segment = r.segment]
    /\ fixIdx' = fixIdx + 1
    /\ UNCHANGED <<pushPc, has_created_date, processor, duplicate_tracker,
                   partitions, dbVars, exVars, runVars, phaseVars, callVars, batchVars,
                   poolVars, idVars, parserVars, retryVars, segVars>>

\* the segment loop is over
FixDone ==
    /\ pushPc = "fix"
    /\ fixIdx > Len(data_store)
    /\ pushPc' = "ids"
    /\ UNCHANGED <<data_store, has_created_date, fixIdx, fixed_tracker,
                   processor, duplicate_tracker, partitions, dbVars, exVars, runVars, phaseVars, callVars, batchVars,
                   poolVars, idVars, parserVars, retryVars, segVars>>

\* the rows of the list with the ids of the two mappings (lines 851-860)
WithPersistentIds(ms, device_map, param_map) ==
    [i \in 1..Len(ms) |->
        [ms[i] EXCEPT
            !.WLD_ID = IF ms[i].WLD_DEVICE_DMC \in DOMAIN device_map
                       THEN device_map[ms[i].WLD_DEVICE_DMC] ELSE @,
            !.WTP_ID = IF ms[i].WTP_PARAM_NAME \in DOMAIN param_map
                       THEN param_map[ms[i].WTP_PARAM_NAME] ELSE @]]

\* update_measurements_with_persistent_ids for the file's list: batch
\* lookup (a failing SELECT is caught and leaves no rows), new ids from the
\* counters, batch inserts (a failing INSERT is caught), rows updated
UpdateMeasurementsWithPersistentIds ==
    /\ pushPc = "ids"
    /\ LET unique_devices == BatchNames({data_store[i].WLD_DEVICE_DMC : i \in 1..Len(data_store)})
           unique_params  == BatchNames({data_store[i].WTP_PARAM_NAME : i \in 1..Len(data_store)})
       IN  \E dsel, psel, dins, pins \in BOOLEAN :
           LET drows == IF dsel THEN SelectByName(device_mapping, unique_devices) ELSE {}
               prows == IF psel THEN SelectByName(parameter_info, unique_params) ELSE {}
               dcnt  == CounterAfter(processor.device_counter, drows)
               pcnt  == CounterAfter(processor.param_counter, prows)
           IN  \E dl \in LoadedMappings(drows), pl \in LoadedMappings(prows) :
               \E dn \in NewAssignments(unique_devices \ DOMAIN dl, dcnt),
                  pn \in NewAssignments(unique_params \ DOMAIN pl, pcnt) :
                   /\ device_mapping' = IF dins THEN device_mapping \cup RowsOfMap(dn)
                                        ELSE device_mapping
                   /\ parameter_info' = IF pins THEN parameter_info \cup RowsOfMap(pn)
                                        ELSE parameter_info
                   /\ processor' =
                        [device_id_map |-> Updated(Updated(processor.device_id_map, dl), dn),
                         param_id_map  |-> Updated(Updated(processor.param_id_map, pl), pn),
                         device_counter |-> dcnt + Cardinality(DOMAIN dn),
                         param_counter  |-> pcnt + Cardinality(DOMAIN pn)]
                   /\ data_store' = WithPersistentIds(data_store, Updated(dl, dn),
                                                      Updated(pl, pn))
    /\ pushPc' = "mappings"
    /\ UNCHANGED <<has_created_date, fixIdx, fixed_tracker, duplicate_tracker,
                   partitions, measurements_table, exVars, runVars, phaseVars, callVars, batchVars,
                   poolVars, idVars, parserVars, retryVars, segVars>>

\* push_to_clickhouse of the integration module, up to the measurements:
\* the whole device_id_map, then the whole param_id_map are inserted; a
\* failing insert raises and ends the push
PushMappings ==
    /\ pushPc = "mappings"
    /\ \E outcome \in {"ok", "device_failed", "param_failed"} :
        /\ device_mapping' = IF outcome = "device_failed" THEN device_mapping
                             ELSE device_mapping \cup RowsOfMap(processor.device_id_map)
        /\ parameter_info' = IF outcome = "ok"
                             THEN parameter_info \cup RowsOfMap(processor.param_id_map)
                             ELSE parameter_info
        /\ pushPc' = IF outcome = "ok" THEN "organize" ELSE "failed"
    /\ UNCHANGED <<data_store, has_created_date, fixIdx, fixed_tracker, processor,
                   duplicate_tracker, partitions, measurements_table, exVars, runVars, phaseVars, callVars, batchVars,
                   poolVars, idVars, parserVars, retryVars, segVars>>

\* push_measurements_clickhouse: the partitions and their workers are set up
OrganizePartitions ==
    /\ pushPc = "organize"
    /\ partitions' =
          LET by == OrganizeMeasurementsByPartition(data_store)
          IN  [w \in DOMAIN by |->
                 [rows |-> by[w], idx |-> 1, batch |-> <<>>, state |-> "run"]]
    /\ pushPc' = "workers"
    /\ UNCHANGED <<data_store, has_created_date, fixIdx, fixed_tracker, processor,
                   duplicate_tracker, dbVars, exVars,
                   runVars, phaseVars, callVars, batchVars,
                   poolVars, idVars, parserVars, retryVars, segVars>>

\* one iteration of _process_measurement_batch in the worker of partition w:
\* segment under the lock, conversion (KeyError without WPTM_CREATED_DATE),
\* and the insert of the batch once it is full (it raises after the retries
\* fail); an exception ends the partition and is swallowed
ProcessMeasurement(w) ==
    /\ pushPc = "workers"
    /\ partitions[w].state = "run"
    /\ partitions[w].idx <= Len(partitions[w].rows)
    /\ LET m     == partitions[w].rows[partitions[w].idx]
           r     == GetDuplicateSegment(DuplicateKey(m), duplicate_tracker)
           batch == Append(partitions[w].batch,
                           ConvertMeasurementToBatchData(m, r.segment))
       IN  /\ duplicate_tracker' = r.tracker
           /\ IF ~has_created_date
              THEN /\ partitions' = [partitions EXCEPT ![w].state = "error"]
                   /\ UNCHANGED measurements_table
              ELSE IF Len(batch) < BatchSize
              THEN /\ partitions' = [partitions EXCEPT ![w].batch = batch,
                                                       ![w].idx = @ + 1]
                   /\ UNCHANGED measurements_table
              ELSE \/ /\ measurements_table' = measurements_table \o batch
                      /\ partitions' = [partitions EXCEPT ![w].batch = <<>>,
                                                          ![w].idx = @ + 1]
                   \/ /\ partitions' = [partitions EXCEPT ![w].state = "error"]
                      /\ UNCHANGED measurements_table
    /\ UNCHANGED <<pushPc, data_store, has_created_date, fixIdx, fixed_tracker,
                   processor, device_mapping, parameter_info, exVars, runVars, phaseVars, callVars, batchVars,
                   poolVars, idVars, parserVars, retryVars, segVars>>

\* the rows of partition w are through: the remaining batch is inserted
FinishPartition(w) ==
    /\ pushPc = "workers"
    /\ partitions[w].state = "run"
    /\ partitions[w].idx > Len(partitions[w].rows)
    /\ \/ /\ measurements_table' = measurements_table \o partitions[w].batch
          /\ partitions' = [partitions EXCEPT ![w].batch = <<>>, ![w].state = "done"]
       \/ /\ partitions[w].batch # <<>>
          /\ partitions' = [partitions EXCEPT ![w].state = "error"]
          /\ UNCHANGED measurements_table
    /\ UNCHANGED <<pushPc, data_store, has_created_date, fixIdx, fixed_tracker,
                   processor, duplicate_tracker, device_mapping, parameter_info,
                   exVars, runVars, phaseVars, callVars, batchVars,
                   poolVars, idVars, parserVars, retryVars, segVars>>

\* every future has returned
PushDone ==
    /\ pushPc = "workers"
    /\ \A w \in DOMAIN partitions : partitions[w].state \in {"done", "error"}
    /\ pushPc' = "done"
    /\ UNCHANGED <<data_store, has_created_date, fixIdx, fixed_tracker, processor,
                   duplicate_tracker, partitions, dbVars, exVars, runVars, phaseVars, callVars, batchVars,
                   poolVars, idVars, parserVars, retryVars, segVars>>

PushNext ==
    \/ FixMeasurement
    \/ FixDone
    \/ UpdateMeasurementsWithPersistentIds
    \/ PushMappings
    \/ OrganizePartitions
    \/ \E w \in DOMAIN partitions : ProcessMeasurement(w)
    \/ \E w \in DOMAIN partitions : FinishPartition(w)
    \/ PushDone

PushFileInit == PushInit /\ ExIdle /\ RunIdle /\ PhaseIdle /\ CallIdle /\ BatchIdle /\ PoolIdle /\ IdIdle /\ ParserIdle /\ RetryIdle /\ SegIdle

SpecPush == PushFileInit /\ [][PushNext]_vars

-----------------------------------------------------------------------------
(* Properties of the segments and of the rows written to the sink *)

SinkIdx == 1..Len(measurements_table)

\* the key fields of a written row, as written
WrittenKey(b) == <<b.wld_id, b.wtp_id, b.wp_pos_x, b.wp_pos_y, b.test_flag>>

\* every partition of the push inserted all its rows
PushComplete ==
    /\ pushPc = "done"
    /\ \A w \in DOMAIN partitions : partitions[w].state = "done"

-----------------------------------------------------------------------------
(* File runs against the shared identity store.  Each run is one file        *)
(* handled by a fresh STDFProcessor (main creates one per file); two runs    *)
(* may follow each other or overlap (two processes on different files).      *)
(* A run takes one of three code paths:                                      *)
(*   "fallback": update_measurements_with_persistent_ids, then the push of   *)
(*               the integration module;                                     *)
(*   "tuples":   extract_measurements (mappings loaded, C++ processing),     *)
(*               then _push_tuples_to_clickhouse_ultra_fast;                 *)
(*   "by_name":  get_device_id for one name.                                 *)
(* The parameter side of the code is the mirror image of the device side;   *)
(* the runs carry device names.                                              *)

Workers == 1..2

NamePool == <<"DEV1", "DEV2", "DEV3", "DEV4">>

Names == {NamePool[i] : i \in 1..MaxNames}

Jobs ==
    [path : {"fallback", "tuples"}, names : (SUBSET Names) \ {{}}]
        \cup [path : {"by_name"}, names : {{n} : n \in Names}]

NoResolution ==
    [resolved |-> FALSE, store |-> {}, mapping |-> <<>>, new |-> <<>>,
     insert_ok |-> TRUE]

\* the per-run state of a fresh STDFProcessor (lines 77-81) and the locals
\* device_mapping / new_devices of the resolution
FreshRun ==
    [device_id_map |-> <<>>, device_counter |-> 0,
     mapping |-> <<>>, new_devices |-> <<>>]

UnderWay(w) == wpc[w] \notin {"idle", "done", "failed"}

\* stdf_parser_cpp.process_stdf_with_database_mappings: names found in the
\* passed mappings keep their id, the others get new sequential ids after
\* the largest id passed
CppProcess(names, loaded) ==
    LET base == CounterAfter(0, loaded)
    IN  {[ids |-> Updated(dl, dn), new |-> dn] :
            dl \in LoadedMappings(SelectByName(loaded, names)),
            dn \in NewAssignments(names \ NamesOf(loaded), base)}

\* a faulty push that goes on to the measurements after a failed insert
AfterMappingInsertIgnoringFailure(ok) == "rows"

\* the push after the insert of the mappings: a failing insert raises, the
\* push returns False and no measurement is written
AfterMappingInsert(ok) == IF ok THEN "rows" ELSE "failed"

RunInit ==
    /\ job \in [Workers -> Jobs]
    /\ wpc = [w \in Workers |-> "idle"]
    /\ wproc = [w \in Workers |-> FreshRun]
    /\ overlapped = FALSE
    /\ resolution = [w \in Workers |-> NoResolution]
    /\ device_mapping = {}
    /\ parameter_info = {}
    /\ measurements_table = <<>>

\* a file run starts with a fresh processor
StartRun(w) ==
    /\ wpc[w] = "idle"
    /\ wpc' = [wpc EXCEPT ![w] = "started"]
    /\ overlapped' = (overlapped \/ \E v \in Workers \ {w} : UnderWay(v))
    /\ UNCHANGED <<job, wproc, resolution, dbVars, exVars, pushVars, phaseVars, callVars, batchVars,
                   poolVars, idVars, parserVars, retryVars, segVars>>

\* update_measurements_with_persistent_ids, lines 768-817: the batched
\* SELECT (a failure is caught: no rows) and the ids of the new names
ResolveBatch(w) ==
    /\ wpc[w] = "started"
    /\ job[w].path = "fallback"
    /\ \E sel \in BOOLEAN :
       LET unique_devices == BatchNames(job[w].names)
           rows == IF sel THEN SelectByName(device_mapping, unique_devices) ELSE {}
           cnt  == CounterAfter(wproc[w].device_counter, rows)
       IN  \E dl \in LoadedMappings(rows) :
           \E dn \in NewAssignments(unique_devices \ DOMAIN dl, cnt) :
              /\ wproc' = [wproc EXCEPT ![w] =
                    [device_id_map |-> Updated(Updated(@.device_id_map, dl), dn),
                     device_counter |-> cnt + Cardinality(DOMAIN dn),
                     mapping |-> Updated(dl, dn),
                     new_devices |-> dn]]
              /\ resolution' = [resolution EXCEPT ![w] =
                    [resolved |-> TRUE, store |-> device_mapping,
                     mapping |-> Updated(dl, dn), new |-> dn, insert_ok |-> TRUE]]
    /\ wpc' = [wpc EXCEPT ![w] = "insert"]
    /\ UNCHANGED <<job, overlapped, dbVars, exVars, pushVars, phaseVars, callVars, batchVars,
                   poolVars, idVars, parserVars, retryVars, segVars>>

\* lines 829-838: the batch insert of the new mappings; a failure is caught
InsertNewDevices(w) ==
    /\ wpc[w] = "insert"
    /\ \/ /\ device_mapping' = device_mapping \cup RowsOfMap(wproc[w].new_devices)
          /\ UNCHANGED resolution
       \/ /\ DOMAIN wproc[w].new_devices # {}
          /\ resolution' = [resolution EXCEPT ![w].insert_ok = FALSE]
          /\ UNCHANGED device_mapping
    /\ wpc' = [wpc EXCEPT ![w] = "mappings"]
    /\ UNCHANGED <<job, wproc, overlapped, parameter_info, measurements_table,
                   exVars, pushVars, phaseVars, callVars, batchVars,
                   poolVars, idVars, parserVars, retryVars, segVars>>

\* extract_measurements, lines 296-309: all mappings are loaded (a failure is
\* caught: none) and handed to the C++ processing
LoadAndProcess(w) ==
    /\ wpc[w] = "started"
    /\ job[w].path = "tuples"
    /\ \E sel \in BOOLEAN :
       \E result \in CppProcess(job[w].names, IF sel THEN device_mapping ELSE {}) :
          wproc' = [wproc EXCEPT ![w].mapping = result.ids,
                                 ![w].new_devices = result.new]
    /\ wpc' = [wpc EXCEPT ![w] = "mappings"]
    /\ UNCHANGED <<job, overlapped, resolution, dbVars, exVars, pushVars, phaseVars, callVars, batchVars,
                   poolVars, idVars, parserVars, retryVars, segVars>>

\* the insert of the mappings that precedes the measurements: the whole
\* device_id_map on the fallback path (_push_device_mappings), the new
\* mappings on the tuples path (lines 991-998)
PushDeviceMappings(w) ==
    /\ wpc[w] = "mappings"
    /\ \E ok \in BOOLEAN :
        /\ device_mapping' =
              IF ~ok THEN device_mapping
              ELSE device_mapping \cup
                     RowsOfMap(IF job[w].path = "fallback"
                               THEN wproc[w].device_id_map
                               ELSE wproc[w].new_devices)
        /\ wpc' = [wpc EXCEPT ![w] = AfterMappingInsert(ok)]
    /\ UNCHANGED <<job, wproc, overlapped, resolution, parameter_info,
                   measurements_table, exVars, pushVars, phaseVars, callVars, batchVars,
                   poolVars, idVars, parserVars, retryVars, segVars>>

\* the rows of the run, one per device name, with the resolved ids
RunRows(w) ==
    LET ns == CHOOSE q \in [1..Cardinality(job[w].names) -> job[w].names] :
                  \A n \in job[w].names : \E i \in DOMAIN q : q[i] = n
    IN  [i \in DOMAIN ns |->
            [wld_id |-> wproc[w].mapping[ns[i]], dmc |-> ns[i], worker |-> w,
             fresh |-> ns[i] \in DOMAIN wproc[w].new_devices]]

\* the measurements are inserted; a failure ends the tuples path with False
\* and is swallowed by the partition workers of the fallback path
WriteRows(w) ==
    /\ wpc[w] = "rows"
    /\ \/ /\ measurements_table' = measurements_table \o RunRows(w)
          /\ wpc' = [wpc EXCEPT ![w] = "done"]
       \/ /\ UNCHANGED measurements_table
          /\ wpc' = [wpc EXCEPT ![w] =
                        IF job[w].path = "tuples" THEN "failed" ELSE "done"]
    /\ UNCHANGED <<job, wproc, overlapped, resolution, device_mapping,
                   parameter_info, exVars, pushVars, phaseVars, callVars, batchVars,
                   poolVars, idVars, parserVars, retryVars, segVars>>

\* get_device_id, lines 96-117: memory miss, SELECT (a failure is caught),
\* a stored id is adopted, else the counter gives the new id
GetDeviceIdSelect(w) ==
    /\ wpc[w] = "started"
    /\ job[w].path = "by_name"
    /\ \E device_dmc \in job[w].names, sel \in BOOLEAN :
       LET rows == IF sel THEN SelectByName(device_mapping, {device_dmc}) ELSE {}
       IN  IF rows # {}
           THEN \E r \in rows :
                  /\ wproc' = [wproc EXCEPT
                        ![w].device_id_map = Updated(@, device_dmc :> r[1]),
                        ![w].device_counter = CounterAfter(@, {r}),
                        ![w].mapping = device_dmc :> r[1]]
                  /\ wpc' = [wpc EXCEPT ![w] = "done"]
           ELSE /\ wproc' = [wproc EXCEPT
                      ![w].device_id_map = Updated(@, device_dmc :> wproc[w].device_counter),
                      ![w].device_counter = @ + 1,
                      ![w].mapping = device_dmc :> wproc[w].device_counter,
                      ![w].new_devices = device_dmc :> wproc[w].device_counter]
                /\ wpc' = [wpc EXCEPT ![w] = "insert_one"]
    /\ UNCHANGED <<job, overlapped, resolution, dbVars, exVars, pushVars, phaseVars, callVars, batchVars,
                   poolVars, idVars, parserVars, retryVars, segVars>>

\* get_device_id, lines 119-129: the INSERT of the new mapping; a failure is
\* caught and the new id is returned all the same
GetDeviceIdInsert(w) ==
    /\ wpc[w] = "insert_one"
    /\ \/ device_mapping' = device_mapping \cup RowsOfMap(wproc[w].new_devices)
       \/ UNCHANGED device_mapping
    /\ wpc' = [wpc EXCEPT ![w] = "done"]
    /\ UNCHANGED <<job, wproc, overlapped, resolution, parameter_info,
                   measurements_table, exVars, pushVars, phaseVars, callVars, batchVars,
                   poolVars, idVars, parserVars, retryVars, segVars>>

RunNext ==
    \E w \in Workers :
        \/ StartRun(w)
        \/ ResolveBatch(w)
        \/ InsertNewDevices(w)
        \/ LoadAndProcess(w)
        \/ PushDeviceMappings(w)
        \/ WriteRows(w)
        \/ GetDeviceIdSelect(w)
        \/ GetDeviceIdInsert(w)

RunsInit == RunInit /\ ExIdle /\ PushIdle /\ PhaseIdle /\ CallIdle /\ BatchIdle /\ PoolIdle /\ IdIdle /\ ParserIdle /\ RetryIdle /\ SegIdle

SpecStore == RunsInit /\ [][RunNext]_vars

-----------------------------------------------------------------------------
(* Properties of the identity store *)

\* a name has one id
Functional(table) == \A r1, r2 \in table : r1[2] = r2[2] => r1[1] = r2[1]

\* an id has one name
Injective(table) == \A r1, r2 \in table : r1[1] = r2[1] => r1[2] = r2[2]

AllRunsOver == \A w \in Workers : wpc[w] \in {"done", "failed"}

\* C6: as long as the file runs follow each other (none starts while another
\* is under way), the store maps every name to one id and every id to one
\* name.
C6_StableAcrossRuns ==
    ~overlapped => (Functional(device_mapping) /\ Injective(device_mapping))

\* C7: a resolved batch gives the names that are not in the store the
\* consecutive ids from (largest id in the store) + 1, or from 0 for an
\* empty store, and gives every name that is in the store its stored id.
C7_ConsecutiveFromStoreMax ==
    \A w \in Workers :
        resolution[w].resolved =>
            LET st   == resolution[w].store
                new  == resolution[w].new
                base == IF st = {} THEN 0 ELSE Max({r[1] : r \in st}) + 1
            IN  /\ DOMAIN new = job[w].names \ NamesOf(st)
                /\ {new[n] : n \in DOMAIN new}
                      = base..(base + Cardinality(DOMAIN new) - 1)
                /\ \A n \in job[w].names \cap NamesOf(st) :
                      <<resolution[w].mapping[n], n>> \in st

C9_OneWinnerPerName ==
    (AllRunsOver /\ overlapped) =>
        /\ Functional(device_mapping)
        /\ Injective(device_mapping)
        /\ \A i, j \in SinkIdx :
              measurements_table[i].dmc = measurements_table[j].dmc
                  => measurements_table[i].wld_id = measurements_table[j].wld_id

-----------------------------------------------------------------------------
(* Two-phase processing of a directory                                       *)
(* ParallelSTDFProcessor.process_directory with ClickHouse enabled: Phase 1  *)
(* scans every file, loads both tables, numbers the new names and inserts    *)
(* them; Phase 2 runs one worker per file in a thread pool.  A worker whose  *)
(* file has a cached Phase 1 result pushes the cached tuples, the others     *)
(* process the file again.  The file hash check of extract_measurements is   *)
(* left out: the files of the batch have not been processed before.          *)

ParamNames == {"TEMP"}

BatchFiles == [devices : (SUBSET Names) \ {{}}, params : {ParamNames}]

\* identity stores a directory run can start from
InitialStores == {{}, {<<0, NamePool[1]>>}, {<<2, NamePool[MaxNames]>>}}

NoResult == [cached |-> FALSE, devices |-> <<>>, params |-> <<>>]

\* a Phase 2 processor before it holds tuples and new mappings
NoTuples == [ids |-> <<>>, new_devices |-> <<>>, new_params |-> <<>>]

NoNewMappings == [devices |-> <<>>, params |-> <<>>]

\* a faulty process_directory that goes on after a failed discovery
AfterDiscoveryUnchecked(success) == "phase2"

\* process_directory, lines 1019-1026: a failed discovery returns []
AfterDiscovery(success) == IF success THEN "phase2" ELSE "returned"

PhaseInit ==
    /\ stdf_files \in [Workers -> BatchFiles]
    /\ ppc = "scan"
    /\ scanIdx = 1
    /\ cached_results = [i \in Workers |-> NoResult]
    /\ all_devices = {}
    /\ all_parameters = {}
    /\ global_mappings = NoNewMappings
    /\ new_mappings = NoNewMappings
    /\ discovery_success = "pending"
    /\ fpc = [i \in Workers |-> "idle"]
    /\ fproc = [i \in Workers |-> NoTuples]
    /\ committed = <<>>
    /\ device_mapping \in InitialStores
    /\ parameter_info = {}
    /\ measurements_table = <<>>

\* discovery loop, lines 862-903: the C++ scan of one file with empty
\* mappings; its result is cached, an exception skips the file
ScanFile ==
    /\ ppc = "scan"
    /\ scanIdx \in Workers
    /\ \/ \E d \in CppProcess(stdf_files[scanIdx].devices, {}),
             p \in CppProcess(stdf_files[scanIdx].params, {}) :
            /\ cached_results' = [cached_results EXCEPT ![scanIdx] =
                  [cached |-> TRUE, devices |-> d.ids, params |-> p.ids]]
            /\ all_devices' = all_devices \cup DOMAIN d.new
            /\ all_parameters' = all_parameters \cup DOMAIN p.new
       \/ UNCHANGED <<cached_results, all_devices, all_parameters>>
    /\ scanIdx' = scanIdx + 1
    /\ UNCHANGED <<stdf_files, ppc, global_mappings, new_mappings,
                   discovery_success, fpc, fproc, committed, dbVars, exVars,
                   pushVars, runVars, callVars, batchVars,
                   poolVars, idVars, parserVars, retryVars, segVars>>

\* lines 909-967: both tables are loaded (a failure is caught: no rows, counter
\* 0) and the discovered names that were not loaded are numbered from the
\* counter; a failing connection or schema setup ends the discovery
LoadAndAssign ==
    /\ ppc = "scan"
    /\ scanIdx \notin Workers
    /\ \/ /\ discovery_success' = "failed"
          /\ ppc' = AfterDiscovery(FALSE)
          /\ UNCHANGED <<global_mappings, new_mappings>>
       \/ \E dsel, psel \in BOOLEAN :
          LET device_results == IF dsel THEN device_mapping ELSE {}
              param_results  == IF psel THEN parameter_info ELSE {}
          IN  \E existing_devices \in LoadedMappings(device_results),
                 existing_params \in LoadedMappings(param_results) :
              \E new_devices \in NewAssignments(all_devices \ DOMAIN existing_devices,
                                                CounterAfter(0, device_results)),
                 new_params \in NewAssignments(all_parameters \ DOMAIN existing_params,
                                               CounterAfter(0, param_results)) :
                 /\ global_mappings' =
                       [devices |-> Updated(existing_devices, new_devices),
                        params |-> Updated(existing_params, new_params)]
                 /\ new_mappings' = [devices |-> new_devices, params |-> new_params]
                 /\ ppc' = "insert_devices"
                 /\ UNCHANGED discovery_success
    /\ UNCHANGED <<stdf_files, scanIdx, cached_results, all_devices,
                   all_parameters, fpc, fproc, committed, dbVars, exVars,
                   pushVars, runVars, callVars, batchVars,
                   poolVars, idVars, parserVars, retryVars, segVars>>

\* lines 970-976: the insert of the new device mappings; a failure ends the
\* discovery with False
InsertDiscoveredDevices ==
    /\ ppc = "insert_devices"
    /\ \/ /\ device_mapping' = device_mapping \cup RowsOfMap(new_mappings.devices)
          /\ ppc' = "insert_params"
          /\ UNCHANGED <<discovery_success, committed>>
       \/ /\ DOMAIN new_mappings.devices # {}
          /\ discovery_success' = "failed"
          /\ ppc' = AfterDiscovery(FALSE)
          /\ committed' = [devices |-> device_mapping, params |-> parameter_info]
          /\ UNCHANGED device_mapping
    /\ UNCHANGED <<stdf_files, scanIdx, cached_results, all_devices,
                   all_parameters, global_mappings, new_mappings, fpc, fproc,
                   parameter_info, measurements_table, exVars, pushVars, runVars, callVars, batchVars,
                   poolVars, idVars, parserVars, retryVars, segVars>>

\* lines 978-994: the insert of the new parameter mappings, then return True
InsertDiscoveredParams ==
    /\ ppc = "insert_params"
    /\ \/ /\ parameter_info' = parameter_info \cup RowsOfMap(new_mappings.params)
          /\ discovery_success' = "ok"
          /\ ppc' = AfterDiscovery(TRUE)
       \/ /\ DOMAIN new_mappings.params # {}
          /\ discovery_success' = "failed"
          /\ ppc' = AfterDiscovery(FALSE)
          /\ UNCHANGED parameter_info
    /\ committed' = [devices |-> device_mapping, params |-> parameter_info']
    /\ UNCHANGED <<stdf_files, scanIdx, cached_results, all_devices,
                   all_parameters, global_mappings, new_mappings, fpc, fproc,
                   device_mapping, measurements_table, exVars, pushVars, runVars, callVars, batchVars,
                   poolVars, idVars, parserVars, retryVars, segVars>>

\* _process_single_file_phase2: with a cached result the worker takes the
\* cached tuples and no new mappings (process_file_with_cached_results,
\* lines 745-749), without one it processes the file again
StartPhase2Worker(i) ==
    /\ ppc = "phase2"
    /\ fpc[i] = "idle"
    /\ IF cached_results[i].cached
       THEN /\ fproc' = [fproc EXCEPT ![i] =
                  [ids |-> cached_results[i].devices,
                   new_devices |-> <<>>, new_params |-> <<>>]]
            /\ fpc' = [fpc EXCEPT ![i] = "mappings"]
       ELSE /\ fpc' = [fpc EXCEPT ![i] = "extract"]
            /\ UNCHANGED fproc
    /\ UNCHANGED <<stdf_files, ppc, scanIdx, cached_results, all_devices,
                   all_parameters, global_mappings, new_mappings,
                   discovery_success, committed, dbVars, exVars, pushVars,
                   runVars, callVars, batchVars,
                   poolVars, idVars, parserVars, retryVars, segVars>>

\* process_file -> extract_measurements, lines 431-443: the tables are loaded
\* (a failure is caught: no rows) and the file is processed by the C++ code,
\* which may raise again
ExtractInPhase2(i) ==
    /\ fpc[i] = "extract"
    /\ \/ /\ fpc' = [fpc EXCEPT ![i] = "failed"]
          /\ UNCHANGED fproc
       \/ \E dsel, psel \in BOOLEAN :
          \E d \in CppProcess(stdf_files[i].devices,
                              IF dsel THEN device_mapping ELSE {}),
             p \in CppProcess(stdf_files[i].params,
                              IF psel THEN parameter_info ELSE {}) :
             /\ fproc' = [fproc EXCEPT ![i] =
                   [ids |-> d.ids, new_devices |-> d.new, new_params |-> p.new]]
             /\ fpc' = [fpc EXCEPT ![i] = "mappings"]
    /\ UNCHANGED <<stdf_files, ppc, scanIdx, cached_results, all_devices,
                   all_parameters, global_mappings, new_mappings,
                   discovery_success, committed, dbVars, exVars, pushVars,
                   runVars, callVars, batchVars,
                   poolVars, idVars, parserVars, retryVars, segVars>>

\* _push_tuples_to_clickhouse_ultra_fast, lines 622-630: the new device
\* mappings the processor holds are inserted; a failure returns False
PushNewDeviceMappings(i) ==
    /\ fpc[i] = "mappings"
    /\ \/ /\ device_mapping' = device_mapping \cup RowsOfMap(fproc[i].new_devices)
          /\ fpc' = [fpc EXCEPT ![i] = "params"]
       \/ /\ DOMAIN fproc[i].new_devices # {}
          /\ fpc' = [fpc EXCEPT ![i] = "failed"]
          /\ UNCHANGED device_mapping
    /\ UNCHANGED <<stdf_files, ppc, scanIdx, cached_results, all_devices,
                   all_parameters, global_mappings, new_mappings,
                   discovery_success, fproc, committed, parameter_info,
                   measurements_table, exVars, pushVars, runVars, callVars, batchVars,
                   poolVars, idVars, parserVars, retryVars, segVars>>

\* lines 632-640: the new parameter mappings
PushNewParamMappings(i) ==
    /\ fpc[i] = "params"
    /\ \/ /\ parameter_info' = parameter_info \cup RowsOfMap(fproc[i].new_params)
          /\ fpc' = [fpc EXCEPT ![i] = "rows"]
       \/ /\ DOMAIN fproc[i].new_params # {}
          /\ fpc' = [fpc EXCEPT ![i] = "failed"]
          /\ UNCHANGED parameter_info
    /\ UNCHANGED <<stdf_files, ppc, scanIdx, cached_results, all_devices,
                   all_parameters, global_mappings, new_mappings,
                   discovery_success, fproc, committed, device_mapping,
                   measurements_table, exVars, pushVars, runVars, callVars, batchVars,
                   poolVars, idVars, parserVars, retryVars, segVars>>

\* the tuples of a file, one per device name, with the ids the C++ result
\* carries
FileTuples(i) ==
    LET names == DOMAIN fproc[i].ids
        ns == CHOOSE q \in [1..Cardinality(names) -> names] :
                  \A n \in names : \E k \in DOMAIN q : q[k] = n
    IN  [k \in DOMAIN ns |->
            [wld_id |-> fproc[i].ids[ns[k]], dmc |-> ns[k], worker |-> i,
             fresh |-> ns[k] \in DOMAIN fproc[i].new_devices]]

\* lines 642-667: the measurements are inserted in one statement
PushTuples(i) ==
    /\ fpc[i] = "rows"
    /\ \/ /\ measurements_table' = measurements_table \o FileTuples(i)
          /\ fpc' = [fpc EXCEPT ![i] = "done"]
       \/ /\ fpc' = [fpc EXCEPT ![i] = "failed"]
          /\ UNCHANGED measurements_table
    /\ UNCHANGED <<stdf_files, ppc, scanIdx, cached_results, all_devices,
                   all_parameters, global_mappings, new_mappings,
                   discovery_success, fproc, committed, device_mapping,
                   parameter_info, exVars, pushVars, runVars, callVars, batchVars,
                   poolVars, idVars, parserVars, retryVars, segVars>>

PhaseNext ==
    \/ ScanFile
    \/ LoadAndAssign
    \/ InsertDiscoveredDevices
    \/ InsertDiscoveredParams
    \/ \E i \in Workers :
          \/ StartPhase2Worker(i)
          \/ ExtractInPhase2(i)
          \/ PushNewDeviceMappings(i)
          \/ PushNewParamMappings(i)
          \/ PushTuples(i)

DirectoryInit == PhaseInit /\ ExIdle /\ PushIdle /\ RunIdle /\ CallIdle /\ BatchIdle /\ PoolIdle /\ IdIdle /\ ParserIdle /\ RetryIdle /\ SegIdle

SpecPhase == DirectoryInit /\ [][PhaseNext]_vars

-----------------------------------------------------------------------------
(* Properties of the two phases *)

Phase2Started == \E i \in Workers : fpc[i] # "idle"

\* C4: a Phase 2 worker has started or a measurement row is in the sink only
\* if the discovery has returned True, after its loop has been over every
\* file of the batch and with the id of every discovered device and
\* parameter name in the identity store; after a failed discovery no worker
\* starts and no row is written.
C4_DiscoveryCommittedBeforePhase2 ==
    (Phase2Started \/ measurements_table # <<>>) =>
        /\ discovery_success = "ok"
        /\ scanIdx \notin Workers
        /\ \A n \in all_devices :
              <<global_mappings.devices[n], n>> \in device_mapping
        /\ \A n \in all_parameters :
              <<global_mappings.params[n], n>> \in parameter_info

\* C4 witness: a worker has written its rows after a discovery that
\* inserted new device mappings
C4_Witness ==
    /\ \E i \in Workers : fpc[i] = "done"
    /\ measurements_table # <<>>
    /\ DOMAIN new_mappings.devices # {}
    /\ discovery_success = "ok"

\* C5: during Phase 2 no worker holds a newly assigned device or parameter
\* id and the identity store is the one Phase 1 left.
C5_NoAssignmentInPhase2 ==
    ppc = "phase2" =>
        /\ \A i \in Workers :
              /\ DOMAIN fproc[i].new_devices = {}
              /\ DOMAIN fproc[i].new_params = {}
        /\ device_mapping = committed.devices
        /\ parameter_info = committed.params

-----------------------------------------------------------------------------
(* Calls of the helper functions of the extractors                           *)
(* One behaviour is one call: the arguments are drawn from the texts below   *)
(* and the called function's result is kept in call_result.                  *)

\* ALARM_ID / TEST_TXT texts of the calls
CallTexts ==
    { <<>>,
      <<"F", "O", "O">>,
      <<"F", "O", "O", ";">> \o MarkerR12C34,
      <<"T", "E", "M", "P", ";">> \o MarkerR1C2,
      MarkerR0C0 \o <<";", "A">>,
      <<" ">> \o MarkerR1C2 \o <<" ">>,
      PixelEq \o <<"X">> }

CallArgs ==
    [alarm_id : CallTexts, test_txt : CallTexts,
     default_x : {0, 5}, default_y : {7}]

\* the (REC_TYP, REC_SUB) pairs a record header is drawn from
RecPairs == [typ : {1, 5, 15}, sub : {10, 15, 20, 25, 40, 50}]

MaxFileRecords == 2

\* the raw records a valid file is built from: type, subtype, payload bytes
RawShapes ==
    { [rec_typ |-> 15, rec_sub |-> 10, payload |-> <<>>],
      [rec_typ |-> 5, rec_sub |-> 20, payload |-> <<9>>],
      [rec_typ |-> 15, rec_sub |-> 15, payload |-> <<9, 9>>] }

\* the bytes of a record: 2-byte little-endian payload length, type,
\* subtype, payload
EncodeRecord(r) ==
    <<Len(r.payload) % 256, Len(r.payload) \div 256, r.rec_typ, r.rec_sub>>
        \o r.payload

RECURSIVE EncodeFile(_)
EncodeFile(recs) ==
    IF recs = <<>> THEN <<>> ELSE EncodeRecord(Head(recs)) \o EncodeFile(Tail(recs))

\* contents that are no STDF: b"dummy" of test_sample_records, and one byte
JunkContents == { <<100, 117, 109, 109, 121>>, <<1>> }

\* a call of parse_stdf_file: a valid file of recs cut after cut bytes, or a
\* junk content; exists tells whether the path exists
FileArgs ==
    { [recs |-> rs, cut |-> t, junk |-> <<>>, exists |-> e] :
        rs \in UNION {[1..n -> RawShapes] : n \in 0..MaxFileRecords},
        t \in 0..(6 * MaxFileRecords), e \in BOOLEAN }
    \cup { [recs |-> <<>>, cut |-> 0, junk |-> j, exists |-> e] :
              j \in JunkContents, e \in BOOLEAN }

\* the bytes of the file of a call
ContentOf(args) ==
    IF args.junk # <<>> THEN args.junk
    ELSE SubStr(EncodeFile(args.recs), 1, Min({args.cut, Len(EncodeFile(args.recs))}))

\* the record reader: from offset o it reads a 4-byte header and the payload
\* of the length the header gives; it ends at the end of the bytes, and it
\* stops as truncated when a header or a payload would reach past the end
RECURSIVE ReadFrom(_, _)
ReadFrom(bytes, o) ==
    IF o = Len(bytes) THEN [records |-> <<>>, truncated |-> FALSE]
    ELSE IF Len(bytes) - o < 4 THEN [records |-> <<>>, truncated |-> TRUE]
    ELSE LET L == bytes[o + 1] + 256 * bytes[o + 2]
         IN  IF o + 4 + L > Len(bytes)
             THEN [records |-> <<>>, truncated |-> TRUE]
             ELSE LET rest == ReadFrom(bytes, o + 4 + L)
                  IN  [records |->
                          <<[rec_typ |-> bytes[o + 3], rec_sub |-> bytes[o + 4],
                             payload |-> SubStr(bytes, o + 5, o + 4 + L)]>>
                              \o rest.records,
                       truncated |-> rest.truncated]

\* stdf_parser_cpp.parse_stdf_file: the records read, their counts and the
\* truncation flag; it raises nothing
CppParseStdfFile(bytes) ==
    LET r == ReadFrom(bytes, 0)
    IN  [raised |-> "", records |-> r.records, total_records |-> Len(r.records),
         parsed_records |-> Len(r.records), truncated |-> r.truncated]

\* a faulty wrapper that turns a truncated result into an error
ParseStdfFileStrict(exists, cpp) ==
    IF ~exists THEN [raised |-> "FileNotFoundError"]
    ELSE IF cpp.raised # "" \/ cpp.truncated THEN [raised |-> "RuntimeError"]
    ELSE cpp

\* STDFCppParser.parse_stdf_file: FileNotFoundError for a missing path,
\* RuntimeError for an exception of the C++ parser, else its result
ParseStdfFile(exists, cpp) ==
    IF ~exists THEN [raised |-> "FileNotFoundError"]
    ELSE IF cpp.raised # "" THEN [raised |-> "RuntimeError"]
    ELSE cpp

CallInit ==
    /\ called = "none"
    /\ call_args \in CallArgs \cup RecPairs \cup FileArgs
    /\ call_result = <<>>

\* type_name of the record counts of debug_raw_records.py, lines 35-43
TypeName(typ, sub) ==
    IF typ = 15 /\ sub = 20 THEN "PTR"
    ELSE IF typ = 15 /\ sub = 15 THEN "MPR"
    ELSE IF typ = 15 /\ sub = 25 THEN "FTR"
    ELSE IF typ = 1 /\ sub = 40 THEN "HBR"
    ELSE IF typ = 1 /\ sub = 50 THEN "SBR"
    ELSE IF typ = 5 /\ sub = 20 THEN "PRR"
    ELSE IF typ = 1 /\ sub = 10 THEN "MIR"
    ELSE "UNKNOWN"

\* _extract_test_coordinates of extract_measurements_pystdf.py: the groups of
\* the match are returned in the order (row, col) and unpacked by the caller
\* as x_pos, y_pos
PystdfExtractTestCoordinates(param_name, test_txt, default_x, default_y) ==
    IF HasMarker(param_name)
    THEN LET m == MarkerAt(param_name, Min(MarkerStarts(param_name)))
         IN  [x |-> ToInt(param_name, m.a, m.e1),
              y |-> ToInt(param_name, m.c + 1, m.e2)]
    ELSE IF HasMarker(test_txt)
    THEN LET m == MarkerAt(test_txt, Min(MarkerStarts(test_txt)))
         IN  [x |-> ToInt(test_txt, m.a, m.e1),
              y |-> ToInt(test_txt, m.c + 1, m.e2)]
    ELSE [x |-> default_x, y |-> default_y]

\* MeasurementExtractor._extract_test_coordinates is called
CallExtractTestCoordinates ==
    /\ called = "none"
    /\ call_args \in CallArgs
    /\ called' = "_extract_test_coordinates"
    /\ call_result' = ExtractTestCoordinates(call_args.alarm_id, call_args.test_txt,
                                             call_args.default_x, call_args.default_y)
    /\ UNCHANGED <<call_args, exVars, dbVars, pushVars, runVars, phaseVars,
                   batchVars, poolVars, idVars, parserVars, retryVars,
                   segVars>>

\* SimplePystdfExtractor._extract_test_coordinates is called
CallPystdfExtractTestCoordinates ==
    /\ called = "none"
    /\ call_args \in CallArgs
    /\ called' = "pystdf._extract_test_coordinates"
    /\ call_result' = PystdfExtractTestCoordinates(call_args.alarm_id,
                          call_args.test_txt, call_args.default_x, call_args.default_y)
    /\ UNCHANGED <<call_args, exVars, dbVars, pushVars, runVars, phaseVars,
                   batchVars, poolVars, idVars, parserVars, retryVars,
                   segVars>>

\* a record of the pair is met: raw_record_counts[rec_pair]++ on an empty
\* map (lines 11-13), and the name its count is printed under
CallTypeName ==
    /\ called = "none"
    /\ call_args \in RecPairs
    /\ called' = "type_name"
    /\ call_result' = [type_name |-> TypeName(call_args.typ, call_args.sub),
                       count |-> 0 + 1]
    /\ UNCHANGED <<call_args, exVars, dbVars, pushVars, runVars, phaseVars,
                   batchVars, poolVars, idVars, parserVars, retryVars,
                   segVars>>

\* STDFCppParser.parse_stdf_file is called on the file
CallParseStdfFile ==
    /\ called = "none"
    /\ call_args \in FileArgs
    /\ called' = "parse_stdf_file"
    /\ call_result' = ParseStdfFile(call_args.exists,
                                     CppParseStdfFile(ContentOf(call_args)))
    /\ UNCHANGED <<call_args, exVars, dbVars, pushVars, runVars, phaseVars,
                   batchVars, poolVars, idVars, parserVars, retryVars,
                   segVars>>

CallNext ==
    \/ CallExtractTestCoordinates
    \/ CallPystdfExtractTestCoordinates
    \/ CallTypeName
    \/ CallParseStdfFile

HelperInit == CallInit /\ ExIdle /\ DbIdle /\ PushIdle /\ RunIdle /\ PhaseIdle /\ BatchIdle /\ PoolIdle /\ IdIdle /\ ParserIdle /\ RetryIdle /\ SegIdle

SpecHelpers == HelperInit /\ [][CallNext]_vars

-----------------------------------------------------------------------------
(* Properties of the helper functions *)

\* (col, row) of the leftmost marker of a text
MarkerColRow(text) ==
    LET m == MarkerAt(text, Min(MarkerStarts(text)))
    IN  [x |-> ToInt(text, m.c + 1, m.e2), y |-> ToInt(text, m.a, m.e1)]

\* C11: the position of a row of a pixel test is (col, row) of the marker of
\* alarm_id if it has one, else of the marker of test_txt, else the
\* device's default coordinates; this for the plain and the pystdf extractor.
C11_PositionFromMarker ==
    (/\ called \in {"_extract_test_coordinates", "pystdf._extract_test_coordinates"}
     /\ IsPixelTest(call_args.alarm_id, call_args.test_txt)) =>
        call_result =
            IF HasMarker(call_args.alarm_id) THEN MarkerColRow(call_args.alarm_id)
            ELSE IF HasMarker(call_args.test_txt) THEN MarkerColRow(call_args.test_txt)
            ELSE [x |-> call_args.default_x, y |-> call_args.default_y]

\* the table of the record kinds
KindTable ==
    (<<15, 10>> :> "PTR") @@ (<<15, 15>> :> "MPR") @@ (<<15, 20>> :> "FTR")
        @@ (<<1, 40>> :> "HBR") @@ (<<1, 50>> :> "SBR") @@ (<<5, 20>> :> "PRR")
        @@ (<<1, 10>> :> "MIR")

\* C20: (15,10) is PTR, (15,15) MPR, (15,20) FTR, (1,40) HBR, (1,50) SBR,
\* (5,20) PRR and (1,10) MIR; every other (type, subtype) pair is Unknown,
\* and a record of any pair, Unknown included, is counted.
C20_Classify ==
    called = "type_name" =>
        LET pair == <<call_args.typ, call_args.sub>>
        IN  /\ call_result.type_name =
                  IF pair \in DOMAIN KindTable THEN KindTable[pair] ELSE "UNKNOWN"
            /\ call_result.count = 1

\* the number of records of the file that lie whole before the cut
WholeBefore(args) ==
    Max({k \in 0..Len(args.recs) :
            Len(EncodeFile(SubSeq(args.recs, 1, k))) <= args.cut})

\* parse_stdf_file has returned for an existing valid file cut somewhere
ReadOfCutFile ==
    /\ called = "parse_stdf_file"
    /\ call_args.exists
    /\ call_args.junk = <<>>

\* the cut took bytes away
Shortened(args) == args.cut < Len(EncodeFile(args.recs))

\* the cut lies inside a record, in its header or in its payload
CutInsideRecord(args) ==
    /\ Shortened(args)
    /\ args.cut # Len(EncodeFile(SubSeq(args.recs, 1, WholeBefore(args))))

-----------------------------------------------------------------------------
(* Properties of the rows of an extraction *)

\* the test record a row was built from
TestOfRow(i) == test_records[measurements[i].src[2]]

\* the field the name of a row is to come from: alarm_id if it holds the
\* marker, otherwise test_txt
MarkerField(test) ==
    IF HasMarker(test.alarm_id) THEN test.alarm_id ELSE test.test_txt

\* C12: the param_name of a row is the field in which the marker was found
\* (alarm_id first, else test_txt) with the marker removed and the result
\* trimmed, and it holds no marker.
C12_NameFromMarkerField ==
    \A i \in RowIdx :
        HasMarker(MarkerField(TestOfRow(i))) =>
            /\ measurements[i].WTP_PARAM_NAME
                  = Strip(CleanParamName(MarkerField(TestOfRow(i))))
            /\ ~HasMarker(measurements[i].WTP_PARAM_NAME)

\* the record has no multi-result data: its values come from test_txt
ScalarValued(test) ==
    ~(test.kind = "MPR" /\ test.rtn_rslt # <<>> /\ test.rtn_rslt # FloatArrayText)

\* the tokens of test_txt: the comma-separated fields, or the whole text
TokensOf(test_txt) ==
    IF Contains(test_txt, <<",">>) THEN StripNonEmpty(SplitComma(test_txt))
    ELSE <<test_txt>>

\* C13: in the plain extractor a record without multi-result data gives one
\* value per token of test_txt, a token that is no float takes the record's
\* scalar result, and a test_txt without commas gives one value; the file
\* [PRR DEV1, PTR 'TEMP;Pixel=R1C2' with empty test_txt and result 3.14]
\* gives one row with value 3.14 at (2, 1) named TEMP.
C13_ResultFallback ==
    (variant = "plain" /\ ExtractionOver) =>
        /\ \A i \in RowIdx :
              LET test   == TestOfRow(i)
                  k      == measurements[i].src[3]
                  tokens == TokensOf(test.test_txt)
              IN  ScalarValued(test) =>
                     /\ k \in 1..Len(tokens)
                     /\ measurements[i].WPTM_VALUE =
                           IF ParseFloat(tokens[k]).ok
                           THEN ParseFloat(tokens[k]).val
                           ELSE SafeFloat(test.result)
        /\ records = <<PrrRec("DEV1", "1", 5, 7),
                       TestRec("PTR", <<"T", "E", "M", "P", ";">> \o MarkerR1C2,
                               <<>>, <<>>, Txt314, 0)>>
              => /\ Len(measurements) = 1
                 /\ measurements[1].WPTM_VALUE = 314
                 /\ measurements[1].WP_POS_X = 2
                 /\ measurements[1].WP_POS_Y = 1
                 /\ measurements[1].WTP_PARAM_NAME = <<"T", "E", "M", "P">>

-----------------------------------------------------------------------------
(* Properties of the rows of a multi-result record *)

\* the segments _process_measurement_batch gives the rows of a list pushed
\* in order with the tracker: rows of one key lie in one partition, so the
\* order of the list is the order in which a key meets the tracker
RECURSIVE SegmentsFrom(_, _)
SegmentsFrom(ms, tracker) ==
    IF ms = <<>> THEN <<>>
    ELSE LET r == GetDuplicateSegment(DuplicateKey(Head(ms)), tracker)
         IN  <<r.segment>> \o SegmentsFrom(Tail(ms), r.tracker)

\* the tokens of a multi-result field
MultiTokens(test) == StripNonEmpty(SplitComma(test.rtn_rslt))

\* an MPR record whose multi-result field holds n >= 1 values
MultiValued(test) ==
    /\ test.kind = "MPR"
    /\ MultiTokens(test) # <<>>
    /\ \A k \in 1..Len(MultiTokens(test)) : ParseFloat(MultiTokens(test)[k]).ok

\* the rows of device d built from test record t, as positions of the list
RowsOf(d, t) ==
    {i \in RowIdx : measurements[i].src[1] = d /\ measurements[i].src[2] = t}

\* the (param, pos) part of the key of a row; the device is src[1]
ParamPos(row) == <<row.WTP_PARAM_NAME, row.WP_POS_X, row.WP_POS_Y>>

-----------------------------------------------------------------------------
(* A batch of files processed once and then once more                       *)
(* "single" is the file loop of main of the connect module: a fresh          *)
(* STDFProcessor per file, extract_measurements, then the push of the        *)
(* tuples.  "directory" is process_directory of the parallel module: the     *)
(* discovery scans every file and caches its tuples, Phase 2 pushes the      *)
(* cached tuples of a file or, without a cached result, handles the file     *)
(* by process_file.  The ids of the rows are left out here, and the files    *)
(* of Phase 2 are taken one after the other: a worker writes its rows in     *)
(* one INSERT.  A row carries the history fields file (the content it was    *)
(* parsed from), idx (the file's place in the batch) and pass.               *)

MaxFiles == 2

FileContents == {"A", "B"}

\* hashlib.md5 of a file's content: one digest per content
Md5(content) == <<"md5", content>>

\* the empty string passed for the hash
NoHash == <<>>

\* stdf_parser_cpp.process_stdf_with_database_mappings: the tuples of a file;
\* the file_hash field of every tuple is the hash the caller passed
CppTuples(content, file_hash, i, p) ==
    [k \in 1..2 |-> [file_hash |-> file_hash, file |-> content, idx |-> i,
                     row |-> k, pass |-> p]]

\* STDFProcessor.__init__: no hash, no tuples
FreshCur == [file_hash |-> NoHash, tuples |-> <<>>]

BatchInit ==
    /\ mode \in {"single", "directory"}
    /\ files \in UNION {[1..n -> FileContents] : n \in 1..MaxFiles}
    /\ pass = 1
    /\ bpc = IF mode = "single" THEN "file" ELSE "discover"
    /\ fileIdx = 1
    /\ cache = [i \in DOMAIN files |-> <<>>]
    /\ cur = FreshCur
    /\ results = <<>>
    /\ device_mapping = {}
    /\ parameter_info = {}
    /\ measurements_table = <<>>

\* a faulty loop that a failed file ends
RecordedAborting(outcome) ==
    /\ results' = Append(results, [file |-> fileIdx, outcome |-> outcome])
    /\ fileIdx' = fileIdx + 1
    /\ bpc' = IF outcome = "failed" THEN "over" ELSE "file"

\* the outcome of the file the loop is at is recorded and the loop goes on
Recorded(outcome) ==
    /\ results' = Append(results, [file |-> fileIdx, outcome |-> outcome])
    /\ fileIdx' = fileIdx + 1
    /\ bpc' = "file"

\* discovery loop, parallel lines 862-903: the C++ scan of a file with an
\* empty hash; the result is cached, an exception skips the file
Discover ==
    /\ bpc = "discover"
    /\ fileIdx \in DOMAIN files
    /\ \/ cache' = [cache EXCEPT ![fileIdx] =
                       CppTuples(files[fileIdx], NoHash, fileIdx, pass)]
       \/ UNCHANGED cache
    /\ fileIdx' = fileIdx + 1
    /\ UNCHANGED <<mode, files, pass, bpc, cur, results, dbVars, exVars,
                   pushVars, runVars, phaseVars, callVars, poolVars, idVars,
                   parserVars, retryVars, segVars>>

\* process_directory, lines 1019-1026: Phase 2 begins after a successful
\* discovery; a failed one returns []
DiscoveryReturns ==
    /\ bpc = "discover"
    /\ fileIdx \notin DOMAIN files
    /\ \/ bpc' = "file" /\ fileIdx' = 1
       \/ bpc' = "over" /\ UNCHANGED fileIdx
    /\ UNCHANGED <<mode, files, pass, cache, cur, results, dbVars, exVars,
                   pushVars, runVars, phaseVars, callVars, poolVars, idVars,
                   parserVars, retryVars, segVars>>

\* the next file gets a fresh processor; with a cached result
\* process_file_with_cached_results (lines 733-750) takes the cached tuples
\* and sets current_file_hash, and the push follows
StartFile ==
    /\ bpc = "file"
    /\ fileIdx \in DOMAIN files
    /\ IF mode = "directory" /\ cache[fileIdx] # <<>>
       THEN /\ cur' = [file_hash |-> Md5(files[fileIdx]), tuples |-> cache[fileIdx]]
            /\ bpc' = "push"
       ELSE /\ cur' = FreshCur
            /\ bpc' = "hash"
    /\ UNCHANGED <<mode, files, pass, fileIdx, cache, results, dbVars, exVars,
                   pushVars, runVars, phaseVars, callVars, poolVars, idVars,
                   parserVars, retryVars, segVars>>

\* extract_measurements, connect lines 252-290: the hash of the file and the
\* look-up of its rows in the sink; found, the file is skipped (main counts
\* it, process_file returns success False for the empty list); an exception
\* of the look-up is caught and the processing goes on
CheckDeduplication ==
    /\ bpc = "hash"
    /\ LET file_hash == Md5(files[fileIdx])
           found == \E i \in 1..Len(measurements_table) :
                        measurements_table[i].file_hash = file_hash
       IN  /\ cur' = [cur EXCEPT !.file_hash = file_hash]
           /\ \/ /\ found
                 /\ Recorded(IF mode = "single" THEN "skipped" ELSE "failed")
              \/ /\ ~found
                 /\ bpc' = "process"
                 /\ UNCHANGED <<fileIdx, results>>
              \/ /\ bpc' = "process"
                 /\ UNCHANGED <<fileIdx, results>>
    /\ UNCHANGED <<mode, files, pass, cache, dbVars, exVars, pushVars, runVars,
                   phaseVars, callVars, poolVars, idVars, parserVars,
                   retryVars, segVars>>

\* extract_measurements, lines 300-309: the C++ processing with the hash of
\* the processor; an exception ends the file as failed
ProcessStdf ==
    /\ bpc = "process"
    /\ \/ /\ cur' = [cur EXCEPT !.tuples =
                        CppTuples(files[fileIdx], cur.file_hash, fileIdx, pass)]
          /\ bpc' = "push"
          /\ UNCHANGED <<fileIdx, results>>
       \/ /\ Recorded("failed")
          /\ UNCHANGED cur
    /\ UNCHANGED <<mode, files, pass, cache, dbVars, exVars, pushVars, runVars,
                   phaseVars, callVars, poolVars, idVars, parserVars,
                   retryVars, segVars>>

\* the tuples are inserted in one statement.  When the push returns False,
\* main prints the failure and counts the file as successful (connect lines
\* 1157-1171), process_file and process_file_with_cached_results return
\* success False
PushToClickhouse ==
    /\ bpc = "push"
    /\ \/ /\ measurements_table' = measurements_table \o cur.tuples
          /\ Recorded("success")
       \/ /\ UNCHANGED measurements_table
          /\ Recorded(IF mode = "single" THEN "success" ELSE "failed")
    /\ UNCHANGED <<mode, files, pass, cache, cur, device_mapping,
                   parameter_info, exVars, pushVars, runVars, phaseVars, callVars,
                   poolVars, idVars, parserVars, retryVars, segVars>>

\* the loop has been over every file
BatchOver ==
    /\ bpc = "file"
    /\ fileIdx \notin DOMAIN files
    /\ bpc' = "over"
    /\ UNCHANGED <<mode, files, pass, fileIdx, cache, cur, results, dbVars,
                   exVars, pushVars, runVars, phaseVars, callVars, poolVars,
                   idVars, parserVars, retryVars, segVars>>

\* the same file or directory is processed again by a new invocation
RunAgain ==
    /\ bpc = "over"
    /\ pass = 1
    /\ pass' = 2
    /\ bpc' = IF mode = "single" THEN "file" ELSE "discover"
    /\ fileIdx' = 1
    /\ cache' = [i \in DOMAIN files |-> <<>>]
    /\ cur' = FreshCur
    /\ results' = <<>>
    /\ UNCHANGED <<mode, files, dbVars, exVars, pushVars, runVars, phaseVars,
                   callVars, poolVars, idVars, parserVars, retryVars,
                   segVars>>

BatchNext ==
    \/ Discover
    \/ DiscoveryReturns
    \/ StartFile
    \/ CheckDeduplication
    \/ ProcessStdf
    \/ PushToClickhouse
    \/ BatchOver
    \/ RunAgain

BatchRunInit ==
    BatchInit /\ ExIdle /\ PushIdle /\ RunIdle /\ PhaseIdle /\ CallIdle /\ PoolIdle /\ IdIdle /\ ParserIdle /\ RetryIdle /\ SegIdle

SpecBatch == BatchRunInit /\ [][BatchNext]_vars

-----------------------------------------------------------------------------
(* Properties of a batch *)

\* C15: every row in the sink carries the MD5 hash of the content of the
\* file it was parsed from, so all rows of a file carry the same hash, on
\* the single-file path and on the two-phase path.
C15_RowsCarryFileHash ==
    \A i \in SinkIdx :
        measurements_table[i].file_hash = Md5(measurements_table[i].file)

\* C16: processing the batch again adds no row for a file whose rows the
\* first processing wrote: no content has rows of both passes in the sink.
C16_RerunAddsNoRows ==
    \A i, j \in SinkIdx :
        (measurements_table[i].pass = 1 /\ measurements_table[j].pass = 2)
            => measurements_table[i].file # measurements_table[j].file

\* C17: when the processing of a batch is over, every file of the batch has
\* exactly one recorded outcome, whatever happened to the other files.
C17_OneOutcomePerFile ==
    bpc = "over" =>
        \A f \in DOMAIN files :
            Cardinality({k \in DOMAIN results : results[k].file = f}) = 1

\* the files the loop has been through
FilesThrough ==
    IF bpc = "over" THEN DOMAIN files
    ELSE IF bpc = "discover" THEN {}
    ELSE {f \in DOMAIN files : f < fileIdx}

\* the directory run returned [] after a failed discovery
DiscoveryAborted ==
    /\ mode = "directory"
    /\ bpc = "over"
    /\ results = <<>>
    /\ \A i \in SinkIdx : measurements_table[i].pass # pass

\* C17 (amended): unless the discovery of a directory run failed, every file
\* the loop has been through has exactly one recorded outcome, whatever the
\* outcomes of the files before it, and no other file has one; when the
\* batch is over that is every file.  After a failed discovery the run
\* records no outcome and writes no row.
C17_OneOutcomePerProcessedFile ==
    \/ DiscoveryAborted
    \/ \A f \in DOMAIN files :
          Cardinality({k \in DOMAIN results : results[k].file = f})
              = IF f \in FilesThrough THEN 1 ELSE 0

\* C17 witness: a batch of two files is over, the first file failed and the
\* second was pushed
C17_Witness ==
    /\ bpc = "over"
    /\ Len(files) = 2
    /\ results = <<[file |-> 1, outcome |-> "failed"],
                   [file |-> 2, outcome |-> "success"]>>
    /\ \E i \in SinkIdx : measurements_table[i].idx = 2

-----------------------------------------------------------------------------
(* Properties of the outcome of a file run *)

\* the rows of run w are in the sink
RowsWritten(w) ==
    \A n \in job[w].names :
        \E i \in SinkIdx : /\ measurements_table[i].worker = w
                           /\ measurements_table[i].dmc = n

\* C18: a file run whose write to the identity store or to the sink failed
\* ends as failed: after a failed insert of new mappings the run does not
\* go on, and a run that ended as done has its new mappings in the identity
\* store and, if it pushes measurements, its rows in the sink.
C18_WriteFailureReported ==
    \A w \in Workers :
        /\ ~resolution[w].insert_ok => wpc[w] = "failed"
        /\ wpc[w] = "done" =>
              /\ \A n \in DOMAIN wproc[w].new_devices :
                    <<wproc[w].new_devices[n], n>> \in device_mapping
              /\ job[w].path # "by_name" => RowsWritten(w)

-----------------------------------------------------------------------------
(* Properties of the grouping of the records of a file *)

\* the records of a kind as they stand in the file
InFileOrder(kind) == SelectSeq(records, LAMBDA r : r.kind = kind)

\* row i is built no later than row j in the visiting order (device, test)
VisitedBefore(i, j) ==
    \/ measurements[i].src[1] < measurements[j].src[1]
    \/ /\ measurements[i].src[1] = measurements[j].src[1]
       /\ measurements[i].src[2] <= measurements[j].src[2]

\* C21: once the records of a file with a PRR record are grouped, the group of
\* each kind holds every record of that kind, repeated records included, in
\* file order, so that no record of the file is lost; the test records are
\* visited kind by kind (MPR, PTR, FTR, SBR, HBR) in that order, and the rows
\* of a device are appended in the order of the test records.
C21_GroupingKeepsOrder ==
    (pc # "start" /\ prr_records # <<>>) =>
        /\ prr_records = InFileOrder("PRR")
        /\ test_records = InFileOrder("MPR") \o InFileOrder("PTR")
              \o InFileOrder("FTR") \o InFileOrder("SBR") \o InFileOrder("HBR")
        /\ Len(prr_records) + Len(test_records) = Len(records)
        /\ \A i, j \in RowIdx : i < j => VisitedBefore(i, j)

\* C21 witness: a file that holds the same test record twice was expanded and
\* both copies gave rows
C21_Witness ==
    /\ ExtractionOver
    /\ Len(test_records) = 2
    /\ test_records[1] = test_records[2]
    /\ RowsFromTest(1) # {}
    /\ RowsFromTest(2) # {}

-----------------------------------------------------------------------------
(* The connection pool of clickhouse_pool.py, used by several threads.  Every *)
(* read and write of active_connections is made under self.lock, so each     *)
(* locked section is one step; the queue operations are steps of their own.  *)

\* max_connections of the pool
MaxConnections == 2

\* no connection is created while so many more than max_connections are open
MaxOvershoot == 1

PoolThreads == {"t1", "t2"}

\* the thread has not called get_connection, or its call is at line 121
NoCall == [how |-> "none", capacity |-> "unseen"]

PoolInit ==
    /\ pool = 0
    /\ active_connections = 0
    /\ open = 0
    /\ held = [t \in PoolThreads |-> 0]
    /\ fill_left = IF 3 < MaxConnections THEN 3 ELSE MaxConnections
    /\ tpc = [t \in PoolThreads |-> "idle"]
    /\ got = [t \in PoolThreads |-> NoCall]

\* the pool is constructed
Constructed == fill_left = 0

\* _create_connection can return a connection (the model creates none beyond
\* the overshoot it allows); it can always raise
CanCreate == open < MaxConnections + MaxOvershoot

\* one iteration of _fill_pool (lines 94-103): under the lock a connection is
\* created and put when the pool is below capacity; a failed creation ends
\* the loop
FillPool ==
    /\ fill_left > 0
    /\ IF active_connections < MaxConnections
       THEN \/ /\ CanCreate
               /\ pool' = pool + 1
               /\ open' = open + 1
               /\ active_connections' = active_connections + 1
               /\ fill_left' = fill_left - 1
            \/ /\ fill_left' = 0
               /\ UNCHANGED <<pool, open, active_connections>>
       ELSE /\ fill_left' = fill_left - 1
            /\ UNCHANGED <<pool, open, active_connections>>
    /\ UNCHANGED <<held, tpc, got>>
    /\ UNCHANGED <<exVars, dbVars, pushVars, runVars, phaseVars, callVars,
                   batchVars, idVars, parserVars, retryVars, segVars>>

\* get_connection, line 121: pool.get(block=False)
GetConnection(t) ==
    /\ Constructed
    /\ tpc[t] = "idle"
    /\ IF pool > 0
       THEN /\ held' = [held EXCEPT ![t] = @ + 1]
            /\ pool' = pool - 1
            /\ got' = [got EXCEPT ![t] = [how |-> "pooled", capacity |-> "unseen"]]
            /\ UNCHANGED tpc
       ELSE /\ tpc' = [tpc EXCEPT ![t] = "get_lock"]
            /\ got' = [got EXCEPT ![t] = NoCall]
            /\ UNCHANGED <<pool, held>>
    /\ UNCHANGED <<active_connections, open, fill_left>>
    /\ UNCHANGED <<exVars, dbVars, pushVars, runVars, phaseVars, callVars,
                   batchVars, idVars, parserVars, retryVars, segVars>>

\* the locked section had a failed creation been raised to the caller
CreateUnderLockRaising(t) ==
    /\ tpc[t] = "get_lock"
    /\ IF active_connections < MaxConnections
       THEN \/ /\ CanCreate
               /\ open' = open + 1
               /\ active_connections' = active_connections + 1
               /\ held' = [held EXCEPT ![t] = @ + 1]
               /\ tpc' = [tpc EXCEPT ![t] = "idle"]
               /\ got' = [got EXCEPT ![t] = [how |-> "created", capacity |-> "below"]]
            \/ /\ tpc' = [tpc EXCEPT ![t] = "idle"]
               /\ got' = [got EXCEPT ![t] = [how |-> "raised", capacity |-> "below"]]
               /\ UNCHANGED <<open, active_connections, held>>
       ELSE /\ tpc' = [tpc EXCEPT ![t] = "get_wait"]
            /\ got' = [got EXCEPT ![t] = [how |-> "waiting", capacity |-> "at"]]
            /\ UNCHANGED <<open, active_connections, held>>
    /\ UNCHANGED <<pool, fill_left>>
    /\ UNCHANGED <<exVars, dbVars, pushVars, runVars, phaseVars, callVars,
                   batchVars, idVars, parserVars, retryVars, segVars>>

\* get_connection, lines 124-133: under the lock, a connection is created when
\* the pool is below capacity; a failed creation falls back to waiting
CreateUnderLock(t) ==
    /\ tpc[t] = "get_lock"
    /\ IF active_connections < MaxConnections
       THEN \/ /\ CanCreate
               /\ open' = open + 1
               /\ active_connections' = active_connections + 1
               /\ held' = [held EXCEPT ![t] = @ + 1]
               /\ tpc' = [tpc EXCEPT ![t] = "idle"]
               /\ got' = [got EXCEPT ![t] = [how |-> "created", capacity |-> "below"]]
            \/ /\ tpc' = [tpc EXCEPT ![t] = "get_wait"]
               /\ got' = [got EXCEPT ![t] = [how |-> "waiting", capacity |-> "below"]]
               /\ UNCHANGED <<open, active_connections, held>>
       ELSE /\ tpc' = [tpc EXCEPT ![t] = "get_wait"]
            /\ got' = [got EXCEPT ![t] = [how |-> "waiting", capacity |-> "at"]]
            /\ UNCHANGED <<open, active_connections, held>>
    /\ UNCHANGED <<pool, fill_left>>
    /\ UNCHANGED <<exVars, dbVars, pushVars, runVars, phaseVars, callVars,
                   batchVars, idVars, parserVars, retryVars, segVars>>

\* get_connection, lines 136-140: pool.get(timeout=timeout) returns a
\* connection that is or becomes idle, or times out while the pool is empty
WaitForConnection(t) ==
    /\ tpc[t] = "get_wait"
    /\ IF pool > 0
       THEN /\ held' = [held EXCEPT ![t] = @ + 1]
            /\ pool' = pool - 1
            /\ got' = [got EXCEPT ![t].how = "waited"]
       ELSE /\ got' = [got EXCEPT ![t].how = "timeout"]
            /\ UNCHANGED <<pool, held>>
    /\ tpc' = [tpc EXCEPT ![t] = "idle"]
    /\ UNCHANGED <<active_connections, open, fill_left>>
    /\ UNCHANGED <<exVars, dbVars, pushVars, runVars, phaseVars, callVars,
                   batchVars, idVars, parserVars, retryVars, segVars>>

\* return_connection, lines 149-165: a connection that answers SELECT 1 is
\* put back unless the queue is full (queue.Full is caught like any other
\* exception); every other connection goes to _close_connection
ReturnConnection(t) ==
    /\ Constructed
    /\ tpc[t] = "idle"
    /\ held[t] > 0
    /\ held' = [held EXCEPT ![t] = @ - 1]
    /\ \/ /\ pool < MaxConnections
          /\ pool' = pool + 1
          /\ UNCHANGED tpc
       \/ /\ tpc' = [tpc EXCEPT ![t] = "ret_close"]
          /\ UNCHANGED pool
    /\ UNCHANGED <<active_connections, open, fill_left, got>>
    /\ UNCHANGED <<exVars, dbVars, pushVars, runVars, phaseVars, callVars,
                   batchVars, idVars, parserVars, retryVars, segVars>>

\* _close_connection, lines 169-172: connection.disconnect()
Disconnect(t) ==
    /\ tpc[t] \in {"ret_close", "all_close"}
    /\ open' = open - 1
    /\ tpc' = [tpc EXCEPT ![t] = IF @ = "ret_close" THEN "ret_dec" ELSE "all_dec"]
    /\ UNCHANGED <<pool, active_connections, held, fill_left, got>>
    /\ UNCHANGED <<exVars, dbVars, pushVars, runVars, phaseVars, callVars,
                   batchVars, idVars, parserVars, retryVars, segVars>>

\* _close_connection, lines 173-175: under the lock, active_connections -= 1
DecreaseCount(t) ==
    /\ tpc[t] \in {"ret_dec", "all_dec"}
    /\ active_connections' = active_connections - 1
    /\ tpc' = [tpc EXCEPT ![t] = IF @ = "ret_dec" THEN "idle" ELSE "all_loop"]
    /\ UNCHANGED <<pool, open, held, fill_left, got>>
    /\ UNCHANGED <<exVars, dbVars, pushVars, runVars, phaseVars, callVars,
                   batchVars, idVars, parserVars, retryVars, segVars>>

\* close_all is called
CloseAll(t) ==
    /\ Constructed
    /\ tpc[t] = "idle"
    /\ tpc' = [tpc EXCEPT ![t] = "all_loop"]
    /\ UNCHANGED <<pool, active_connections, open, held, fill_left, got>>
    /\ UNCHANGED <<exVars, dbVars, pushVars, runVars, phaseVars, callVars,
                   batchVars, idVars, parserVars, retryVars, segVars>>

\* close_all, lines 179-184: the next idle connection is taken to be closed, or
\* the loop ends on queue.Empty
CloseAllTake(t) ==
    /\ tpc[t] = "all_loop"
    /\ IF pool > 0
       THEN /\ pool' = pool - 1
            /\ tpc' = [tpc EXCEPT ![t] = "all_close"]
       ELSE /\ tpc' = [tpc EXCEPT ![t] = "all_reset"]
            /\ UNCHANGED pool
    /\ UNCHANGED <<active_connections, open, held, fill_left, got>>
    /\ UNCHANGED <<exVars, dbVars, pushVars, runVars, phaseVars, callVars,
                   batchVars, idVars, parserVars, retryVars, segVars>>

\* close_all, lines 186-187: under the lock, active_connections = 0
CloseAllReset(t) ==
    /\ tpc[t] = "all_reset"
    /\ active_connections' = 0
    /\ tpc' = [tpc EXCEPT ![t] = "idle"]
    /\ UNCHANGED <<pool, open, held, fill_left, got>>
    /\ UNCHANGED <<exVars, dbVars, pushVars, runVars, phaseVars, callVars,
                   batchVars, idVars, parserVars, retryVars, segVars>>

PoolNext ==
    \/ FillPool
    \/ \E t \in PoolThreads : GetConnection(t)
    \/ \E t \in PoolThreads : CreateUnderLock(t)
    \/ \E t \in PoolThreads : WaitForConnection(t)
    \/ \E t \in PoolThreads : ReturnConnection(t)
    \/ \E t \in PoolThreads : Disconnect(t)
    \/ \E t \in PoolThreads : DecreaseCount(t)
    \/ \E t \in PoolThreads : CloseAll(t)
    \/ \E t \in PoolThreads : CloseAllTake(t)
    \/ \E t \in PoolThreads : CloseAllReset(t)

PoolRunInit ==
    PoolInit /\ ExIdle /\ DbIdle /\ PushIdle /\ RunIdle /\ PhaseIdle /\ CallIdle /\ BatchIdle /\ IdIdle /\ ParserIdle /\ RetryIdle /\ SegIdle

SpecPool == PoolRunInit /\ [][PoolNext]_vars

\* queue.get(timeout=...) returns or raises within its timeout: a waiting
\* thread is not left waiting forever
SpecPoolLive ==
    SpecPool /\ \A t \in PoolThreads : WF_vars(WaitForConnection(t))

-----------------------------------------------------------------------------
(* Properties of the connection pool *)

\* no thread is inside a call of the pool
PoolQuiet == Constructed /\ \A t \in PoolThreads : tpc[t] = "idle"

\* C22: the number of open connections of the pool, idle or checked out,
\* never exceeds max_connections.
C22_OpenWithinMax == open <= MaxConnections

\* C30: active_connections is never negative, and whenever no call of the pool
\* is under way it equals the number of open connections.
C30_CountMatchesOpen ==
    /\ active_connections >= 0
    /\ PoolQuiet => active_connections = open

OutcomeFollowsCheck ==
    \A t \in PoolThreads :
        /\ got[t].capacity = "at" => got[t].how \in {"waiting", "waited", "timeout"}
        /\ got[t].capacity = "below" =>
              got[t].how \in {"created", "waiting", "waited", "timeout"}
        /\ got[t].how = "created" => got[t].capacity = "below"

\* a wait ends with a connection taken from the queue, or with the timeout
\* error while the queue is empty
WaitEnds ==
    \A t \in PoolThreads :
        (tpc[t] = "get_wait" /\ tpc'[t] # "get_wait") =>
            \/ got'[t].how = "waited" /\ pool > 0 /\ held'[t] = held[t] + 1
            \/ got'[t].how = "timeout" /\ pool = 0 /\ held'[t] = held[t]

-----------------------------------------------------------------------------
(* get_device_id of the single-file version next to get_device_id of the     *)
(* parallel version (its local branch and SharedIDManager run the same       *)
(* statements).  Both are given the same calls in the order in which the     *)
(* threads enter the lock, on identity stores that start equal.  The         *)
(* parameter side of both versions mirrors the device side.                  *)

\* calls made in one run of the model
MaxCalls == 3

IdThreads == {"w1", "w2"}

\* device_id_map = {} and device_counter = 0 of the constructors
FreshIds == [device_id_map |-> <<>>, device_counter |-> 0]

NoPending == [name |-> "", client |-> FALSE]

\* get_device_id of the single-file version (connect module, lines 93-131):
\* memory, then SELECT (a hit moves the counter past the id), then a new id
\* from the counter and its INSERT; database errors are caught
SingleGetDeviceId(st, store, device_dmc, client, select_ok, insert_ok) ==
    IF device_dmc \in DOMAIN st.device_id_map
    THEN {[ret |-> st.device_id_map[device_dmc], st |-> st, store |-> store]}
    ELSE LET rows == IF client /\ select_ok
                     THEN SelectByName(store, {device_dmc}) ELSE {}
             new_wld_id == st.device_counter
         IN  IF rows # {}
             THEN {[ret |-> r[1],
                    st |-> [device_id_map |->
                                Updated(st.device_id_map, device_dmc :> r[1]),
                            device_counter |->
                                IF r[1] >= st.device_counter THEN r[1] + 1
                                ELSE st.device_counter],
                    store |-> store] : r \in rows}
             ELSE {[ret |-> new_wld_id,
                    st |-> [device_id_map |->
                                Updated(st.device_id_map, device_dmc :> new_wld_id),
                            device_counter |-> st.device_counter + 1],
                    store |-> IF client /\ insert_ok
                              THEN store \cup {<<new_wld_id, device_dmc>>}
                              ELSE store]}

\* get_device_id_threadsafe of SharedIDManager (parallel module, lines 96-119)
\* and the local branch of STDFProcessor.get_device_id (lines 204-221):
\* memory, then SELECT, then a new id from the counter
SharedGetDeviceId(st, store, device_dmc, client, select_ok) ==
    IF device_dmc \in DOMAIN st.device_id_map
    THEN {[ret |-> st.device_id_map[device_dmc], st |-> st, store |-> store]}
    ELSE LET rows == IF client /\ select_ok
                     THEN SelectByName(store, {device_dmc}) ELSE {}
             new_wld_id == st.device_counter
         IN  IF rows # {}
             THEN {[ret |-> r[1],
                    st |-> [st EXCEPT !.device_id_map =
                                Updated(@, device_dmc :> r[1])],
                    store |-> store] : r \in rows}
             ELSE {[ret |-> new_wld_id,
                    st |-> [device_id_map |->
                                Updated(st.device_id_map, device_dmc :> new_wld_id),
                            device_counter |-> st.device_counter + 1],
                    store |-> store]}

IdInit ==
    /\ single_store \in InitialStores
    /\ shared_store = single_store
    /\ single = FreshIds
    /\ manager = FreshIds
    /\ device_lock = "free"
    /\ pending = [t \in IdThreads |-> NoPending]
    /\ returned = {}
    /\ ret = <<>>
    /\ preload = "no"
    /\ calls = 0

\* SharedIDManager.load_existing_mappings (lines 76-84), before any call: the
\* rows of device_mapping fill the map and move the counter past every id; a
\* failing SELECT is caught and leaves the manager as it is
LoadExistingMappings ==
    /\ preload = "no"
    /\ calls = 0
    /\ device_lock = "free"
    /\ \/ /\ \E f \in LoadedMappings(shared_store) :
                manager' = [device_id_map |-> Updated(manager.device_id_map, f),
                            device_counter |->
                                CounterAfter(manager.device_counter, shared_store)]
          /\ preload' = "loaded"
       \/ /\ preload' = "failed"
          /\ UNCHANGED manager
    /\ UNCHANGED <<single_store, shared_store, single, device_lock, pending,
                   returned, ret, calls>>
    /\ UNCHANGED <<exVars, dbVars, pushVars, runVars, phaseVars, callVars,
                   batchVars, poolVars, parserVars, retryVars, segVars>>

\* a thread calls get_device_id(device_dmc, client) and comes to the lock
CallGetDeviceId(t, device_dmc, client) ==
    /\ pending[t] = NoPending
    /\ calls < MaxCalls
    /\ pending' = [pending EXCEPT ![t] = [name |-> device_dmc, client |-> client]]
    /\ calls' = calls + 1
    /\ UNCHANGED <<single_store, shared_store, single, manager, device_lock,
                   returned, ret, preload>>
    /\ UNCHANGED <<exVars, dbVars, pushVars, runVars, phaseVars, callVars,
                   batchVars, poolVars, parserVars, retryVars, segVars>>

\* with self.device_lock: the thread enters when the lock is free
EnterDeviceLock(t) ==
    /\ pending[t] # NoPending
    /\ device_lock = "free"
    /\ device_lock' = t
    /\ UNCHANGED <<single_store, shared_store, single, manager, pending,
                   returned, ret, preload, calls>>
    /\ UNCHANGED <<exVars, dbVars, pushVars, runVars, phaseVars, callVars,
                   batchVars, poolVars, parserVars, retryVars, segVars>>

\* the body of the call under the lock, in both versions, and the release
ResolveDeviceId(t, select_ok, insert_ok) ==
    /\ device_lock = t
    /\ \E s \in SingleGetDeviceId(single, single_store, pending[t].name,
                                  pending[t].client, select_ok, insert_ok) :
       \E p \in SharedGetDeviceId(manager, shared_store, pending[t].name,
                                  pending[t].client, select_ok) :
          /\ single' = s.st
          /\ single_store' = s.store
          /\ manager' = p.st
          /\ shared_store' = p.store
          /\ ret' = [single |-> s.ret, shared |-> p.ret]
          /\ returned' = returned \cup {<<p.ret, pending[t].name>>}
    /\ device_lock' = "free"
    /\ pending' = [pending EXCEPT ![t] = NoPending]
    /\ UNCHANGED <<preload, calls>>
    /\ UNCHANGED <<exVars, dbVars, pushVars, runVars, phaseVars, callVars,
                   batchVars, poolVars, parserVars, retryVars, segVars>>

IdNext ==
    \/ LoadExistingMappings
    \/ \E t \in IdThreads : \E device_dmc \in Names : \E client \in BOOLEAN :
           CallGetDeviceId(t, device_dmc, client)
    \/ \E t \in IdThreads : EnterDeviceLock(t)
    \/ \E t \in IdThreads : \E select_ok, insert_ok \in BOOLEAN :
           ResolveDeviceId(t, select_ok, insert_ok)

IdRunInit ==
    IdInit /\ ExIdle /\ DbIdle /\ PushIdle /\ RunIdle /\ PhaseIdle /\ CallIdle /\ BatchIdle /\ PoolIdle /\ ParserIdle /\ RetryIdle /\ SegIdle

SpecIds == IdRunInit /\ [][IdNext]_vars

-----------------------------------------------------------------------------
(* Properties of the identity calls *)

\* C23: as long as load_existing_mappings was not called, every call returns
\* the same id in the parallel version as in the single-file version and
\* leaves the same map, the same counter and the same identity store.
C23_SameAsSingleFile ==
    preload = "no" =>
        /\ ret # <<>> => ret.shared = ret.single
        /\ manager = single
        /\ shared_store = single_store

\* C25: among the ids the manager has returned, a name has one id and an id
\* has one name.
C25_OneIdPerName == Functional(returned) /\ Injective(returned)

-----------------------------------------------------------------------------
(* The statistics of one STDFCppParser over several parse_stdf_file calls *)

\* calls made in one run of the model
MaxParseCalls == 3

\* time.time() - start_time of a call, in hundredths of a second
Elapsed == {0, 1}

\* self.stats of __init__ (lines 41-46) and of reset_statistics
ZeroStats ==
    [files_processed |-> 0, total_records |-> 0, parsed_records |-> 0,
     processing_time |-> 0]

NoParse == [raised |-> "none", missing |-> FALSE, before |-> ZeroStats]

\* what the call of the C++ function gives: an exception, or its result
CppOutcome(args, cpp_fails) ==
    IF cpp_fails THEN [raised |-> "Exception"]
    ELSE CppParseStdfFile(ContentOf(args))

\* how parse_stdf_file ends (lines 62-90)
ParseOutcome(args, cpp_fails) ==
    IF ~args.exists THEN [raised |-> "FileNotFoundError"]
    ELSE IF ~extension THEN [raised |-> "RuntimeError"]
    ELSE ParseStdfFile(args.exists, CppOutcome(args, cpp_fails))

\* a faulty wrapper that counts the file before it calls the parser
StatsAfterCountingAttempts(st, out, processing_time) ==
    IF out.raised = "FileNotFoundError" THEN st
    ELSE IF out.raised # "" THEN [st EXCEPT !.files_processed = @ + 1]
    ELSE [files_processed |-> st.files_processed + 1,
          total_records |-> st.total_records + out.total_records,
          parsed_records |-> st.parsed_records + out.parsed_records,
          processing_time |-> st.processing_time + processing_time]

\* self.stats after the call: the four updates of lines 78-81 follow the
\* return of the C++ function, nothing before it touches self.stats
StatsAfter(st, out, processing_time) ==
    IF out.raised # "" THEN st
    ELSE [files_processed |-> st.files_processed + 1,
          total_records |-> st.total_records + out.total_records,
          parsed_records |-> st.parsed_records + out.parsed_records,
          processing_time |-> st.processing_time + processing_time]

ParserInit ==
    /\ stats = ZeroStats
    /\ extension \in BOOLEAN
    /\ parse_log = NoParse
    /\ parses = 0

\* STDFCppParser.parse_stdf_file is called on a file
ParseFile(args, cpp_fails, processing_time) ==
    /\ parses < MaxParseCalls
    /\ LET out == ParseOutcome(args, cpp_fails)
       IN  /\ stats' = StatsAfter(stats, out, processing_time)
           /\ parse_log' = [raised |-> out.raised, missing |-> ~args.exists,
                            before |-> stats]
    /\ parses' = parses + 1
    /\ UNCHANGED extension
    /\ UNCHANGED <<exVars, dbVars, pushVars, runVars, phaseVars, callVars,
                   batchVars, poolVars, idVars, retryVars, segVars>>

\* STDFCppParser.reset_statistics
ResetStatistics ==
    /\ stats # ZeroStats
    /\ stats' = ZeroStats
    /\ parse_log' = NoParse
    /\ UNCHANGED <<extension, parses>>
    /\ UNCHANGED <<exVars, dbVars, pushVars, runVars, phaseVars, callVars,
                   batchVars, poolVars, idVars, retryVars, segVars>>

ParserNext ==
    \/ \E args \in FileArgs : \E cpp_fails \in BOOLEAN :
       \E processing_time \in Elapsed : ParseFile(args, cpp_fails, processing_time)
    \/ ResetStatistics

ParserRunInit ==
    ParserInit /\ ExIdle /\ DbIdle /\ PushIdle /\ RunIdle /\ PhaseIdle /\ CallIdle /\ BatchIdle /\ PoolIdle /\ IdIdle /\ RetryIdle /\ SegIdle

SpecParser == ParserRunInit /\ [][ParserNext]_vars

-----------------------------------------------------------------------------
(* Properties of the parser statistics *)

-----------------------------------------------------------------------------
(* Properties of the rows of Phase 2 *)

\* the (id, name) pairs of the rows in the sink
RowIdentities ==
    {<<measurements_table[k].wld_id, measurements_table[k].dmc>> :
        k \in 1..Len(measurements_table)}

\* C26: every row pushed in Phase 2 carries the device id that the identity
\* map committed in Phase 1 gives its device name, so a name has one id in
\* the rows of all files of the batch.
C26_RowsCarryCommittedIds ==
    ppc = "phase2" =>
        /\ \A k \in 1..Len(measurements_table) :
              LET row == measurements_table[k]
              IN  /\ row.dmc \in DOMAIN global_mappings.devices
                  /\ row.wld_id = global_mappings.devices[row.dmc]
        /\ Functional(RowIdentities)

-----------------------------------------------------------------------------
(* The batch insert with retries                                             *)
(* src/python/clickhouse_integration.py, _execute_batch_with_retry (733-750) *)
(* and _execute_landing_batch_with_retry (376-396): the two bodies differ    *)
(* only in the INSERT statement                                              *)

MaxRetries == 4

RetryFunctions == {"batch", "landing"}

\* how one pass of the loop can end: the insert ran and succeeded, the pool
\* gave no connection (get_connection raised, no insert ran), the insert raised
PassOutcomes == {"inserted", "no_connection", "insert_failed"}

\* the except clause with its re-raise removed
ExceptClauseSwallowing(count, limit) ==
    [retry_count |-> count + 1, reraise |-> FALSE]

\* the except clause: the count after a failed pass and whether the error
\* being handled is raised again
ExceptClause(count, limit) ==
    [retry_count |-> count + 1, reraise |-> count + 1 >= limit]

RetryInit == RetryIdle

\* the call: retry_count = 0
CallExecuteWithRetry(fn, n) ==
    /\ rpc \in {"idle", "done"}
    /\ retry_fn' = fn
    /\ max_retries' = n
    /\ retry_count' = 0
    /\ attempts' = <<>>
    /\ retry_ret' = NoReturn
    /\ rpc' = "loop"
    /\ UNCHANGED <<exVars, dbVars, pushVars, runVars, phaseVars, callVars,
                   batchVars, poolVars, idVars, parserVars, segVars>>

\* one pass of the while loop: the with block, then return True or the except
\* clause; the error of pass i is written i
AttemptInsert(outcome) ==
    /\ rpc = "loop"
    /\ retry_count < max_retries
    /\ attempts' = Append(attempts, outcome)
    /\ IF outcome = "inserted"
       THEN /\ retry_ret' = [how |-> "True", error |-> 0]
            /\ rpc' = "done"
            /\ UNCHANGED retry_count
       ELSE LET e == ExceptClause(retry_count, max_retries)
            IN  /\ retry_count' = e.retry_count
                /\ IF e.reraise
                   THEN /\ retry_ret' = [how |-> "raised",
                                         error |-> Len(attempts) + 1]
                        /\ rpc' = "done"
                   ELSE UNCHANGED <<retry_ret, rpc>>
    /\ UNCHANGED <<retry_fn, max_retries>>
    /\ UNCHANGED <<exVars, dbVars, pushVars, runVars, phaseVars, callVars,
                   batchVars, poolVars, idVars, parserVars, segVars>>

\* the loop condition is false: return False
LeaveRetryLoop ==
    /\ rpc = "loop"
    /\ retry_count >= max_retries
    /\ retry_ret' = [how |-> "False", error |-> 0]
    /\ rpc' = "done"
    /\ UNCHANGED <<retry_fn, max_retries, retry_count, attempts>>
    /\ UNCHANGED <<exVars, dbVars, pushVars, runVars, phaseVars, callVars,
                   batchVars, poolVars, idVars, parserVars, segVars>>

RetryNext ==
    \/ \E fn \in RetryFunctions, n \in 0..MaxRetries :
           CallExecuteWithRetry(fn, n)
    \/ \E outcome \in PassOutcomes : AttemptInsert(outcome)
    \/ LeaveRetryLoop

RetryRunInit ==
    RetryInit /\ ExIdle /\ DbIdle /\ PushIdle /\ RunIdle /\ PhaseIdle /\ CallIdle /\ BatchIdle /\ PoolIdle /\ IdIdle /\ ParserIdle /\ SegIdle

SpecRetry == RetryRunInit /\ [][RetryNext]_vars

-----------------------------------------------------------------------------
(* Properties of the batch insert with retries *)

\* the passes of the call in which the INSERT statement was executed
InsertsAttempted == {i \in 1..Len(attempts) : attempts[i] # "no_connection"}

AllPassesFailed == \A i \in 1..Len(attempts) : attempts[i] # "inserted"

\* C27: a call with max_retries = n >= 1 executes the insert at most n times;
\* no pass follows a successful one and the call then returns True; it raises
\* exactly after n failed passes, and the error raised is that of the last
\* pass; it never returns False
C27_RetriesThenReraises ==
    max_retries >= 1 =>
        /\ Cardinality(InsertsAttempted) <= max_retries
        /\ \A i \in 1..Len(attempts) :
               attempts[i] = "inserted" => i = Len(attempts)
        /\ (attempts # <<>> /\ attempts[Len(attempts)] = "inserted")
               <=> retry_ret.how = "True"
        /\ (Len(attempts) = max_retries /\ AllPassesFailed)
               <=> retry_ret.how = "raised"
        /\ retry_ret.how = "raised" => retry_ret.error = Len(attempts)
        /\ retry_ret.how # "False"
        /\ rpc = "done" <=> retry_ret.how \in {"True", "raised"}

\* a call that raised the error of its third pass, and whose second pass never
\* reached the insert
C27_Witness ==
    /\ rpc = "done"
    /\ max_retries = 3
    /\ attempts = <<"insert_failed", "no_connection", "insert_failed">>
    /\ retry_ret = [how |-> "raised", error |-> 3]

-----------------------------------------------------------------------------
(* The segments of one key repeated many times                               *)
(* src/python/clickhouse_integration.py, _get_duplicate_segment (706-715),   *)
(* and the segment loop of STDFProcessor.push_to_clickhouse in               *)
(* src/extract_all_measurements_plus_clickhouse_connect.py (716-724)         *)

MaxRepeats == 257

\* the largest value of the column "segment UInt8" of the measurements table
SegmentColumnMax == 255

SegmentRoutes == {"batch", "processor"}

\* the (device_id, param_id, pos_x, pos_y, test_flag) key the rows share
RepeatedKey == <<0, 0, 0, 0, 0>>

SegInit ==
    /\ seg_tracker = <<>>
    /\ seg_last = -1
    /\ seg_route \in SegmentRoutes

\* _process_measurement_batch takes the segment of the next row of the key
AssignBatchSegment ==
    /\ seg_route = "batch"
    /\ seg_last + 1 < MaxRepeats
    /\ LET r == GetDuplicateSegment(RepeatedKey, seg_tracker)
       IN  /\ seg_last' = r.segment
           /\ seg_tracker' = r.tracker
    /\ UNCHANGED seg_route
    /\ UNCHANGED <<exVars, dbVars, pushVars, runVars, phaseVars, callVars,
                   batchVars, poolVars, idVars, parserVars, retryVars>>

\* the processor's loop sets fixed_measurement['segment'] of the next row
AssignProcessorSegment ==
    /\ seg_route = "processor"
    /\ seg_last + 1 < MaxRepeats
    /\ LET r == GetDuplicateSegment(RepeatedKey, seg_tracker)
       IN  /\ seg_last' = r.segment
           /\ seg_tracker' = r.tracker
    /\ UNCHANGED seg_route
    /\ UNCHANGED <<exVars, dbVars, pushVars, runVars, phaseVars, callVars,
                   batchVars, poolVars, idVars, parserVars, retryVars>>

SegNext == AssignBatchSegment \/ AssignProcessorSegment

SegRunInit ==
    SegInit /\ ExIdle /\ DbIdle /\ PushIdle /\ RunIdle /\ PhaseIdle /\ CallIdle /\ BatchIdle /\ PoolIdle /\ IdIdle /\ ParserIdle /\ RetryIdle

SpecSegments == SegRunInit /\ [][SegNext]_vars

-----------------------------------------------------------------------------
(* Properties of the segments of a repeated key *)

\* C29: the segment assigned to a row fits the UInt8 segment column, however
\* often the key of the row is repeated in the file
C29_SegmentFitsColumn == seg_last <= SegmentColumnMax
=============================================================================
